---- MODULE Spec2Model ----
(***************************************************************************)
(* Aurora assistant: the command registry validator, the sandboxed         *)
(* executor, the confidence router and the per-utterance orchestration.    *)
(* Text is modelled as sequences of one-character strings so that the      *)
(* string functions of the code (strip, split, shlex.split, ...) are       *)
(* computed, not assumed.                                                  *)
(***************************************************************************)
EXTENDS Integers, Sequences, FiniteSets, TLC

(***************************************************************************)
(* Bounds of the model.                                                    *)
(***************************************************************************)
\* number of lines of a declarative command source (commands.txt)
MaxLines == 2
\* confidences and thresholds are the fractions k / ConfSteps
ConfSteps == 2
\* utterances handled by one run of the assistant
MaxUtterances == 2
\* voice samples a speaker model is trained with
MaxSamples == 3
\* consecutive capture timeouts that are counted
MaxTimeouts == 4
\* the largest max_retries listen_with_retry is called with
MaxRetries == 6
\* words of a text given to the wakeword processor
MaxWords == 3

(***************************************************************************)
(* Character strings.                                                      *)
(***************************************************************************)
\* str.strip / str.split whitespace (the characters of it the model uses)
IsSpace(c) == c \in {" ", "\t"}

IsLetter(c) == c \in {"A", "B", "Y", "a", "b", "e", "n", "o", "s", "x", "y", "z", "_"}

IsDigit(c) == c \in {"1", "2"}

\* str.lower, one character
LowerChar(c) ==
  CASE c = "A" -> "a"
    [] c = "B" -> "b"
    [] c = "Y" -> "y"
    [] OTHER -> c

\* str.lower
Lower(s) == [i \in 1..Len(s) |-> LowerChar(s[i])]

RECURSIVE LStrip(_)
LStrip(s) == IF s # <<>> /\ IsSpace(Head(s)) THEN LStrip(Tail(s)) ELSE s

RECURSIVE RStrip(_)
RStrip(s) ==
  IF s # <<>> /\ IsSpace(s[Len(s)]) THEN RStrip(SubSeq(s, 1, Len(s) - 1)) ELSE s

\* str.strip()
Strip(s) == RStrip(LStrip(s))

\* s.startswith(p)
StartsWith(s, p) == Len(p) <= Len(s) /\ SubSeq(s, 1, Len(p)) = p

\* `t in s` for strings: t occurs in s as a substring
Contains(s, t) ==
  \E i \in 1..(Len(s) - Len(t) + 1) : SubSeq(s, i, i + Len(t) - 1) = t

\* index of the first occurrence of character c in s (0 when absent)
IndexOf(s, c) ==
  IF \E i \in 1..Len(s) : s[i] = c
  THEN CHOOSE i \in 1..Len(s) : s[i] = c /\ \A j \in 1..(i - 1) : s[j] # c
  ELSE 0

\* str.isidentifier()
IsIdentifier(s) ==
  /\ s # <<>>
  /\ IsLetter(s[1])
  /\ \A i \in 1..Len(s) : IsLetter(s[i]) \/ IsDigit(s[i])

\* str.split(): the maximal runs of non-whitespace characters
RECURSIVE StrSplitFrom(_, _, _)
StrSplitFrom(s, token, out) ==
  IF s = <<>> THEN (IF token = <<>> THEN out ELSE Append(out, token))
  ELSE IF IsSpace(Head(s))
       THEN StrSplitFrom(Tail(s), <<>>, IF token = <<>> THEN out ELSE Append(out, token))
       ELSE StrSplitFrom(Tail(s), Append(token, Head(s)), out)

StrSplit(s) == StrSplitFrom(s, <<>>, <<>>)

(***************************************************************************)
(* shlex.split(value): POSIX mode, whitespace_split, no comment characters.*)
(* state: "ws" between tokens, "word" inside a word, "dq" / "sq" inside a  *)
(* quotation, "esc" after a backslash (escapedstate says where to return). *)
(***************************************************************************)
RECURSIVE ShlexWalk(_, _, _, _, _, _)
ShlexWalk(s, state, escapedstate, token, quoted, out) ==
  LET emit == IF token # <<>> \/ quoted THEN Append(out, token) ELSE out
  IN
  IF s = <<>> THEN
    CASE state \in {"ws", "word"} -> [ok |-> TRUE, argv |-> emit]
      [] state \in {"dq", "sq"}   -> [ok |-> FALSE, argv |-> <<>>]  \* No closing quotation
      [] OTHER                    -> [ok |-> FALSE, argv |-> <<>>]  \* No escaped character
  ELSE
    LET c == Head(s)
        r == Tail(s)
    IN
    CASE state = "ws" ->
           IF IsSpace(c) THEN ShlexWalk(r, "ws", escapedstate, <<>>, FALSE, out)
           ELSE IF c = "\\" THEN ShlexWalk(r, "esc", "word", token, quoted, out)
           ELSE IF c = "\"" THEN ShlexWalk(r, "dq", escapedstate, token, quoted, out)
           ELSE IF c = "'" THEN ShlexWalk(r, "sq", escapedstate, token, quoted, out)
           ELSE ShlexWalk(r, "word", escapedstate, <<c>>, quoted, out)
      [] state = "word" ->
           IF IsSpace(c) THEN ShlexWalk(r, "ws", escapedstate, <<>>, FALSE, emit)
           ELSE IF c = "\"" THEN ShlexWalk(r, "dq", escapedstate, token, quoted, out)
           ELSE IF c = "'" THEN ShlexWalk(r, "sq", escapedstate, token, quoted, out)
           ELSE IF c = "\\" THEN ShlexWalk(r, "esc", "word", token, quoted, out)
           ELSE ShlexWalk(r, "word", escapedstate, Append(token, c), quoted, out)
      [] state = "dq" ->
           IF c = "\"" THEN ShlexWalk(r, "word", escapedstate, token, TRUE, out)
           ELSE IF c = "\\" THEN ShlexWalk(r, "esc", "dq", token, TRUE, out)
           ELSE ShlexWalk(r, "dq", escapedstate, Append(token, c), TRUE, out)
      [] state = "sq" ->
           IF c = "'" THEN ShlexWalk(r, "word", escapedstate, token, TRUE, out)
           ELSE ShlexWalk(r, "sq", escapedstate, Append(token, c), TRUE, out)
      [] OTHER ->  \* "esc": inside "..." only the quote and the backslash are escapable
           IF escapedstate = "dq" /\ c # "\\" /\ c # "\""
           THEN ShlexWalk(r, escapedstate, escapedstate, token \o <<"\\", c>>, quoted, out)
           ELSE ShlexWalk(r, escapedstate, escapedstate, Append(token, c), quoted, out)

ShlexSplit(s) == ShlexWalk(s, "ws", "word", <<>>, FALSE, <<>>)

(***************************************************************************)
(* State.                                                                  *)
(***************************************************************************)
VARIABLES
  source,        \* commands.txt: [present, lines], lines a sequence of strings
  commandsJson,  \* commands/commands.json: [present, doc], doc the compiled registry
  validator,     \* the validator run: [pc, exit, lineno, kind]
  altJson,       \* the registry file an alternate --commands path points at
  args,          \* the command line: [mode, continuous, verify, auto, confirm, commands, text]
  env,           \* the speaker gate this process finds: [available, trained]
  pc,            \* where the process is: "main", "input", "classify", "route",
                 \* "confirm", "voice_setup", "listen", "transcribe", "exit"
  exitCode,      \* exit status of the process, NotExited while it runs
  failure,       \* the exception that ended the process ("none" on a normal return)
  executor,      \* CommandExecutor: [built, commands]
  router,        \* CommandRouter: [built, auto, confirm]
  transcriber,   \* the transcriber singleton: [built, verify_speaker, has_verifier]
  uttNo,         \* utterances begun so far
  utt,           \* the utterance being processed (or the last one processed)
  spawned,       \* the child processes launched so far
  capture,       \* the voice loop's use of AudioCapture: [timeouts, failed], the
                 \* calls of listen that timed out one after the other while
                 \* the session waited for its first sample (0 once it has
                 \* come), and whether calibrate or listen raised MicrophoneError
  retry,         \* a call of listen_with_retry: [max_retries, auto_calibrate, pc,
                 \* attempt, heard, calibrations, result], heard what each call
                 \* of listen gave
  training,      \* a speaker training session (run_speaker_training):
                 \* [pc, n, i, successful, ended, exitCode]
  wake,          \* the wakeword processor applied to a text, and again to what
                 \* it returned: [text, prev, out, n]
  verifier,      \* SpeakerVerifier: [built, model, scaler_fitted, is_trained,
                 \* n_samples, threshold]; model: self.model is not None
  modelStore,    \* models/speaker_model.pkl: [present, model, scaler_fitted,
                 \* is_trained, n_samples, threshold]
  gateCall       \* the last call of the verifier and what came of it, with the
                 \* history of the store: [op, raised, error, authorized,
                 \* config, enrolled, stored]

(***************************************************************************)
(* commands/validator.py                                                   *)
(***************************************************************************)
\* the backquote character (written by name: the lexer reserves the character)
Backquote == "backquote"

FORBIDDEN_TOKENS ==
  { <<";">>, <<"&", "&">>, <<"|", "|">>, <<"|">>, <<Backquote>>, <<"$", "(">>, <<">">>, <<"<">> }

\* A plausible slip: the tokens are looked for among the whitespace-separated
\* words of the command instead of anywhere in its text.
is_safe_command_words(cmd) ==
  \A token \in FORBIDDEN_TOKENS : \A i \in 1..Len(StrSplit(cmd)) : StrSplit(cmd)[i] # token

is_safe_command(cmd) ==
  \A token \in FORBIDDEN_TOKENS : ~Contains(cmd, token)

NoCommands == [k \in {} |-> [cmd |-> <<>>, danger |-> "unknown"]]

\* A plausible slip: the identifier is case-folded before it is stored.
ParseLine_folded(raw_line, commands) ==
  LET line == Strip(raw_line)
      eq == IndexOf(line, "=")
      key == Lower(Strip(SubSeq(line, 1, eq - 1)))
      value == Strip(SubSeq(line, eq + 1, Len(line)))
  IN
  IF line = <<>> \/ StartsWith(line, <<"#">>) THEN [kind |-> "skip", key |-> <<>>, value |-> <<>>]
  ELSE IF eq = 0 THEN [kind |-> "missing_eq", key |-> <<>>, value |-> <<>>]
  ELSE IF ~IsIdentifier(key) THEN [kind |-> "invalid_id", key |-> key, value |-> value]
  ELSE IF key \in DOMAIN commands THEN [kind |-> "duplicate_id", key |-> key, value |-> value]
  ELSE IF value = <<>> THEN [kind |-> "empty_command", key |-> key, value |-> value]
  ELSE IF ~is_safe_command(value) THEN [kind |-> "forbidden_token", key |-> key, value |-> value]
  ELSE IF ~ShlexSplit(value).ok THEN [kind |-> "shell_parsing", key |-> key, value |-> value]
  ELSE [kind |-> "entry", key |-> key, value |-> value]

\* A plausible slip: the safety check of the command runs first, before the
\* identifier is looked at.
ParseLine_token_first(raw_line, commands) ==
  LET line == Strip(raw_line)
      eq == IndexOf(line, "=")
      key == Strip(SubSeq(line, 1, eq - 1))
      value == Strip(SubSeq(line, eq + 1, Len(line)))
  IN
  IF line = <<>> \/ StartsWith(line, <<"#">>) THEN [kind |-> "skip", key |-> <<>>, value |-> <<>>]
  ELSE IF eq = 0 THEN [kind |-> "missing_eq", key |-> <<>>, value |-> <<>>]
  ELSE IF ~is_safe_command(value) THEN [kind |-> "forbidden_token", key |-> key, value |-> value]
  ELSE IF ~IsIdentifier(key) THEN [kind |-> "invalid_id", key |-> key, value |-> value]
  ELSE IF key \in DOMAIN commands THEN [kind |-> "duplicate_id", key |-> key, value |-> value]
  ELSE IF value = <<>> THEN [kind |-> "empty_command", key |-> key, value |-> value]
  ELSE IF ~ShlexSplit(value).ok THEN [kind |-> "shell_parsing", key |-> key, value |-> value]
  ELSE [kind |-> "entry", key |-> key, value |-> value]

\* One iteration of the loop over the lines: what the line does to the load.
\* kind "skip" (blank or comment) and "entry" continue, every other kind raises.
ParseLine(raw_line, commands) ==
  LET line == Strip(raw_line)
      eq == IndexOf(line, "=")
      key == Strip(SubSeq(line, 1, eq - 1))
      value == Strip(SubSeq(line, eq + 1, Len(line)))
  IN
  IF line = <<>> \/ StartsWith(line, <<"#">>) THEN [kind |-> "skip", key |-> <<>>, value |-> <<>>]
  ELSE IF eq = 0 THEN [kind |-> "missing_eq", key |-> <<>>, value |-> <<>>]
  ELSE IF ~IsIdentifier(key) THEN [kind |-> "invalid_id", key |-> key, value |-> value]
  ELSE IF key \in DOMAIN commands THEN [kind |-> "duplicate_id", key |-> key, value |-> value]
  ELSE IF value = <<>> THEN [kind |-> "empty_command", key |-> key, value |-> value]
  ELSE IF ~is_safe_command(value) THEN [kind |-> "forbidden_token", key |-> key, value |-> value]
  ELSE IF ~ShlexSplit(value).ok THEN [kind |-> "shell_parsing", key |-> key, value |-> value]
  ELSE [kind |-> "entry", key |-> key, value |-> value]

\* The loop of parse_commands_file from line number lineno on, then the
\* emptiness check.  Result: [ok, lineno, kind, commands]; lineno = 0 marks
\* the error that belongs to no line.
RECURSIVE ParseFrom(_, _, _)
ParseFrom(lines, lineno, commands) ==
  IF lineno > Len(lines) THEN
    IF commands = NoCommands
    THEN [ok |-> FALSE, lineno |-> 0, kind |-> "no_commands", commands |-> NoCommands]
    ELSE [ok |-> TRUE, lineno |-> 0, kind |-> "ok", commands |-> commands]
  ELSE
    LET p == ParseLine(lines[lineno], commands) IN
    CASE p.kind = "skip" -> ParseFrom(lines, lineno + 1, commands)
      [] p.kind = "entry" ->
           ParseFrom(lines, lineno + 1,
                     commands @@ (p.key :> [cmd |-> p.value, danger |-> "unknown"]))
      [] OTHER -> [ok |-> FALSE, lineno |-> lineno, kind |-> p.kind, commands |-> NoCommands]

\* A plausible slip: the emptiness check after the loop is missing, a source
\* without entries compiles to an empty mapping.
parse_commands_file_unchecked(lines) ==
  LET r == ParseFrom(lines, 1, NoCommands) IN
  IF r.kind = "no_commands"
  THEN [ok |-> TRUE, lineno |-> 0, kind |-> "ok", commands |-> NoCommands]
  ELSE r

parse_commands_file(lines) == ParseFrom(lines, 1, NoCommands)

\* main(): exit 1 without commands.txt, exit 2 on a validation error, else
\* commands.json is (over)written with the parsed mapping.
ValidatorMain ==
  /\ validator.pc = "start"
  /\ IF ~source.present
     THEN /\ validator' = [pc |-> "done", exit |-> 1, lineno |-> 0, kind |-> "not_found"]
          /\ UNCHANGED commandsJson
     ELSE LET r == parse_commands_file(source.lines) IN
          IF ~r.ok
          THEN /\ validator' = [pc |-> "done", exit |-> 2, lineno |-> r.lineno, kind |-> r.kind]
               /\ UNCHANGED commandsJson
          ELSE /\ validator' = [pc |-> "done", exit |-> 0, lineno |-> 0, kind |-> "ok"]
               /\ commandsJson' = [present |-> TRUE, doc |-> r.commands]
  /\ UNCHANGED <<source, altJson, args, env, pc, exitCode, failure, executor, router,
                 transcriber, uttNo, utt, spawned, capture, retry, training, wake,
                 verifier, modelStore, gateCall>>

(***************************************************************************)
(* src/audio/wakeword.py                                                   *)
(***************************************************************************)
\* the default wakeword, "aurora"
DefaultWakeword == <<"a", "u", "r", "o", "r", "a">>

\* re.sub(r'\s+', ' ', s): every run of whitespace becomes one space
RECURSIVE CollapseSpaces(_)
CollapseSpaces(s) ==
  IF s = <<>> THEN <<>>
  ELSE IF IsSpace(Head(s))
       THEN <<" ">> \o CollapseSpaces(LStrip(s))
       ELSE <<Head(s)>> \o CollapseSpaces(Tail(s))

\* s with its first occurrence of w removed (str.replace(w, "", 1) and the
\* count=1 regex substitution); s itself when w does not occur
RemoveFirst(s, w, fold) ==
  LET t == IF fold THEN Lower(s) ELSE s
      hits == { i \in 1..(Len(s) - Len(w) + 1) : SubSeq(t, i, i + Len(w) - 1) = w }
  IN IF hits = {} \/ w = <<>> THEN s
     ELSE LET i == CHOOSE i \in hits : \A j \in hits : i <= j
          IN SubSeq(s, 1, i - 1) \o SubSeq(s, i + Len(w), Len(s))

\* WakewordProcessor.detect
detect(text, wakeword, case_sensitive, start_only) ==
  LET search_text == IF case_sensitive THEN text ELSE Lower(text)
      search_word == IF case_sensitive THEN wakeword ELSE Lower(wakeword)
  IN IF text = <<>> THEN FALSE
     ELSE IF start_only THEN StartsWith(Strip(search_text), search_word)
     ELSE Contains(search_text, search_word)

\* WakewordProcessor.remove
remove(text, wakeword, case_sensitive, start_only) ==
  LET result == Strip(text)
      folded == IF case_sensitive THEN result ELSE Lower(result)
      word == IF case_sensitive THEN wakeword ELSE Lower(wakeword)
      cut == IF start_only
             THEN IF StartsWith(folded, word)
                  THEN Strip(SubSeq(result, Len(wakeword) + 1, Len(result)))
                  ELSE Strip(result)
             ELSE Strip(RemoveFirst(result, word, ~case_sensitive))
  IN IF text = <<>> THEN <<>> ELSE CollapseSpaces(cut)

\* WakewordProcessor.process, the cleaned text
process(text, wakeword, case_sensitive, start_only) ==
  IF detect(text, wakeword, case_sensitive, start_only)
  THEN remove(text, wakeword, case_sensitive, start_only)
  ELSE text

\* remove_wakeword(text) with the default processor
remove_wakeword(text) == process(text, DefaultWakeword, FALSE, TRUE)

(***************************************************************************)
(* src/nlp/predict.py: the classifier is an external model; what it        *)
(* predicts is an input.  A prediction is a label and a confidence; the    *)
(* label map sends the label to an intent id, or has no entry for it.      *)
(***************************************************************************)
\* the intent ids of the label map
LabelIds == { <<"A">>, <<"B">>, <<"Z">> }

Confidences == 0..ConfSteps

\* what the model can answer: a failure of the artifacts or of the model, a
\* class index missing from the label map, or a labelled prediction
ModelAnswers ==
  [kind : {"model_error", "unmapped_class"}, intent_id : {<<>>}, confidence : {0}]
    \cup [kind : {"label"}, intent_id : LabelIds, confidence : Confidences]

\* _load_valid_intents: the identifiers of the default commands.json
valid_intents == DOMAIN commandsJson.doc

\* A plausible slip: the intent id of the label map is returned without being
\* looked up in valid_intents.
predict_unvalidated(text, answer) ==
  IF ~commandsJson.present \/ answer.kind = "model_error" \/ Strip(text) = <<>>
       \/ answer.kind = "unmapped_class"
  THEN [ok |-> FALSE, intent_id |-> <<>>, confidence |-> 0]
  ELSE [ok |-> TRUE, intent_id |-> answer.intent_id, confidence |-> answer.confidence]

\* IntentPredictor.predict: [ok, intent_id, confidence]; ok = FALSE is PredictError
predict(text, answer) ==
  IF ~commandsJson.present \/ answer.kind = "model_error" \/ Strip(text) = <<>>
       \/ answer.kind = "unmapped_class" \/ answer.intent_id \notin valid_intents
  THEN [ok |-> FALSE, intent_id |-> <<>>, confidence |-> 0]
  ELSE [ok |-> TRUE, intent_id |-> answer.intent_id, confidence |-> answer.confidence]

(***************************************************************************)
(* src/core/executor.py                                                    *)
(***************************************************************************)
\* how the launched program ends: exit status 0, a non-zero exit status, or
\* no such executable
ChildOutcomes == {"ok", "nonzero", "notfound"}

\* CommandExecutor.__init__: the exception it raises, "none" when it returns
executor_init(file) ==
  IF ~file.present THEN "FileNotFoundError"
  ELSE IF file.doc = NoCommands THEN "ValueError"
  ELSE "none"

\* what the CommandExecutionError of a launch carries: the captured stderr of
\* a program that exited non-zero, or that the executable was not found
failure_detail(child) ==
  CASE child = "nonzero" -> "stderr"
    [] child = "notfound" -> "not_found"
    [] OTHER -> "none"

\* execute has raised before subprocess.run was given anything to run
NotRun ==
  [raised |-> "none", launched |-> FALSE, argv |-> <<>>, child |-> "none",
   detail |-> "none", waited |-> TRUE]

\* A plausible slip: no membership check, an unknown identifier is looked up
\* with a default and run as it stands.
execute_unchecked(commands, command_id, child) ==
  LET cmd_parts == IF command_id \in DOMAIN commands
                   THEN StrSplit(commands[command_id].cmd)
                   ELSE StrSplit(command_id)
  IN [raised |-> IF child = "ok" THEN "none" ELSE "CommandExecutionError",
      launched |-> TRUE, argv |-> cmd_parts, child |-> child,
      detail |-> failure_detail(child), waited |-> TRUE]

\* A plausible slip: an unknown identifier is reported as a failed execution.
execute_wrong_error(commands, command_id, child) ==
  IF command_id \notin DOMAIN commands
  THEN [NotRun EXCEPT !.raised = "CommandExecutionError"]
  ELSE [raised |-> IF child = "ok" THEN "none" ELSE "CommandExecutionError",
        launched |-> TRUE, argv |-> StrSplit(commands[command_id].cmd), child |-> child,
        detail |-> failure_detail(child), waited |-> TRUE]

\* A plausible slip: the exit status is not checked (run without check=True),
\* so a failing program is reported as a success.
execute_status_ignored(commands, command_id, child) ==
  IF command_id \notin DOMAIN commands
  THEN [NotRun EXCEPT !.raised = "CommandNotAllowedError"]
  ELSE [raised |-> IF child = "notfound" THEN "CommandExecutionError" ELSE "none",
        launched |-> TRUE, argv |-> StrSplit(commands[command_id].cmd), child |-> child,
        detail |-> IF child = "notfound" THEN "not_found" ELSE "none", waited |-> TRUE]

\* A plausible slip: the program is started and not waited for (Popen in the
\* place of run), so execute returns while it is still running.
execute_detached(commands, command_id, child) ==
  IF command_id \notin DOMAIN commands
  THEN [NotRun EXCEPT !.raised = "CommandNotAllowedError"]
  ELSE [raised |-> IF child = "notfound" THEN "CommandExecutionError" ELSE "none",
        launched |-> TRUE, argv |-> StrSplit(commands[command_id].cmd), child |-> child,
        detail |-> IF child = "notfound" THEN "not_found" ELSE "none",
        waited |-> child = "notfound"]

\* CommandExecutor.execute: the exception raised ("none": it returns), whether
\* subprocess.run launched a child, the argument vector it was given, what the
\* exception carries, and whether the child had ended when execute returned or
\* raised (subprocess.run waits for it).  child is how the launched program
\* would end.
execute(commands, command_id, child) ==
  IF command_id \notin DOMAIN commands
  THEN [NotRun EXCEPT !.raised = "CommandNotAllowedError"]
  ELSE IF "cmd" \notin DOMAIN commands[command_id]
  THEN [NotRun EXCEPT !.raised = "ValueError"]
  ELSE LET cmd_parts == StrSplit(commands[command_id].cmd) IN
       IF cmd_parts = <<>>   \* subprocess.run([]) raises before launching anything
       THEN [NotRun EXCEPT !.raised = "IndexError"]
       ELSE [raised |-> IF child = "ok" THEN "none" ELSE "CommandExecutionError",
             launched |-> TRUE, argv |-> cmd_parts, child |-> child,
             detail |-> failure_detail(child), waited |-> TRUE]

(***************************************************************************)
(* src/core/router.py                                                      *)
(***************************************************************************)
\* the values a threshold option can be given: the grid and one value on
\* either side of [0, 1]
ThresholdValues == (0 - 1)..(ConfSteps + 1)

\* A plausible slip: the bounds are checked, the order of the two is not.
thresholds_valid_unordered(confirmation_threshold, auto_execute_threshold) ==
  /\ 0 <= confirmation_threshold /\ confirmation_threshold <= ConfSteps
  /\ 0 <= auto_execute_threshold /\ auto_execute_threshold <= ConfSteps

\* CommandRouter.__init__: 0.0 <= confirmation <= auto_execute <= 1.0
thresholds_valid(confirmation_threshold, auto_execute_threshold) ==
  /\ 0 <= confirmation_threshold
  /\ confirmation_threshold <= auto_execute_threshold
  /\ auto_execute_threshold <= ConfSteps

\* A plausible slip: the comparisons are not strict, so a confidence equal to
\* a threshold falls in the lower class.
route_decision_nonstrict(confidence, confirmation_threshold, auto_execute_threshold) ==
  IF confidence <= confirmation_threshold THEN "Reject"
  ELSE IF confidence <= auto_execute_threshold THEN "Confirm"
  ELSE "Execute"

\* CommandRouter.route: which of its three branches is taken
route_decision(confidence, confirmation_threshold, auto_execute_threshold) ==
  IF confidence < confirmation_threshold THEN "Reject"
  ELSE IF confidence < auto_execute_threshold THEN "Confirm"
  ELSE "Execute"

(***************************************************************************)
(* src/audio/speaker_verify.py, verify: the acoustic model is external;    *)
(* what it answers for a sample is an input.                               *)
(***************************************************************************)
\* what the feature extraction and the model give for a sample: a failure of
\* the extraction, a failure of the scaler or of the model, or the predicted
\* class (1: the enrolled speaker) with the probability of that class
GateAnswers ==
  [kind : {"feature_error", "model_error"}, prediction : {0}, confidence : {0}]
    \cup [kind : {"prediction"}, prediction : {0, 1}, confidence : Confidences]

\* A plausible slip: the confidence alone decides, whichever class was
\* predicted.
verify_confidence_only(is_trained, threshold, answer) ==
  IF ~is_trained
  THEN [raised |-> TRUE, error |-> "NotTrained", authorized |-> FALSE, confidence |-> 0]
  ELSE IF answer.kind # "prediction"
  THEN [raised |-> TRUE, error |-> "VerificationFailed", authorized |-> FALSE,
        confidence |-> 0]
  ELSE [raised |-> FALSE, error |-> "none",
        authorized |-> (answer.confidence >= threshold),
        confidence |-> answer.confidence]

\* A plausible slip: a failure inside verify is logged and answered with a
\* default result.
verify_default_on_error(is_trained, threshold, answer) ==
  IF ~is_trained
  THEN [raised |-> TRUE, error |-> "NotTrained", authorized |-> FALSE, confidence |-> 0]
  ELSE IF answer.kind # "prediction"
  THEN [raised |-> FALSE, error |-> "none", authorized |-> FALSE, confidence |-> 0]
  ELSE [raised |-> FALSE, error |-> "none",
        authorized |-> (answer.prediction = 1 /\ answer.confidence >= threshold),
        confidence |-> answer.confidence]

\* SpeakerVerifier.verify: [raised, error, authorized, confidence]; error says
\* which SpeakerVerificationError it is: the model is not trained, or the
\* verification itself failed (whatever was raised inside is wrapped)
verify(is_trained, threshold, answer) ==
  IF ~is_trained
  THEN [raised |-> TRUE, error |-> "NotTrained", authorized |-> FALSE, confidence |-> 0]
  ELSE IF answer.kind # "prediction"
  THEN [raised |-> TRUE, error |-> "VerificationFailed", authorized |-> FALSE,
        confidence |-> 0]
  ELSE [raised |-> FALSE, error |-> "none",
        authorized |-> (answer.prediction = 1 /\ answer.confidence >= threshold),
        confidence |-> answer.confidence]

(***************************************************************************)
(* src/audio/speaker_verify.py: the verifier as an object with a store.    *)
(* The feature extraction, the scaler, the SVM and the file system are     *)
(* external; whether a call of theirs fails is an input.                   *)
(***************************************************************************)
\* the thresholds config/speaker.yaml can set
GateThresholds == {1, ConfSteps}

NoVerifier ==
  [built |-> FALSE, model |-> FALSE, scaler_fitted |-> FALSE, is_trained |-> FALSE,
   n_samples |-> 0, threshold |-> 0]

NoStore ==
  [present |-> FALSE, model |-> FALSE, scaler_fitted |-> FALSE, is_trained |-> FALSE,
   n_samples |-> 0, threshold |-> 0]

\* SpeakerVerifier.__init__ before the store is looked at: no model, a new
\* scaler, is_trained = False, n_samples = 0
new_verifier(threshold) ==
  [built |-> TRUE, model |-> FALSE, scaler_fitted |-> FALSE, is_trained |-> FALSE,
   n_samples |-> 0, threshold |-> threshold]

\* A plausible slip: the threshold of the store is not read back, the gate
\* keeps the configured one.
load_model_keeps_threshold(v, store) ==
  [v EXCEPT !.model = store.model, !.scaler_fitted = store.scaler_fitted,
            !.n_samples = store.n_samples, !.is_trained = store.is_trained]

\* _load_model: model, scaler, n_samples, is_trained and threshold are taken
\* from the store (a store written by _save_model has every key)
load_model(v, store) ==
  [v EXCEPT !.model = store.model, !.scaler_fitted = store.scaler_fitted,
            !.n_samples = store.n_samples, !.is_trained = store.is_trained,
            !.threshold = store.threshold]

\* _save_model: the store a successful dump leaves
save_model(v) ==
  [present |-> TRUE, model |-> v.model, scaler_fitted |-> v.scaler_fitted,
   is_trained |-> v.is_trained, n_samples |-> v.n_samples, threshold |-> v.threshold]

\* SpeakerVerifier.__init__: the store is loaded if it exists
verifier_init(threshold, store) ==
  IF store.present THEN load_model(new_verifier(threshold), store)
  ELSE new_verifier(threshold)

\* how far a call of train gets: the feature extraction fails, the scaler
\* fails, the fit of the model fails, the dump to the store fails, or none does
TrainOutcomes == {"ok", "feature_error", "scale_error", "fit_error", "save_error"}

\* SpeakerVerifier.train: [raised, verifier, saved]; the statements run in
\* the order of the code, a failure leaves what the earlier ones assigned
train(v, outcome) ==
  IF outcome = "feature_error"
  THEN [raised |-> TRUE, verifier |-> v, saved |-> FALSE]
  ELSE IF ~v.model
  THEN LET created == [v EXCEPT !.model = TRUE]
           scaled == [created EXCEPT !.scaler_fitted = TRUE]
           fitted == [scaled EXCEPT !.n_samples = 1, !.is_trained = TRUE]
       IN CASE outcome = "scale_error" ->
                 [raised |-> TRUE, verifier |-> created, saved |-> FALSE]
            [] outcome = "fit_error" ->
                 [raised |-> TRUE, verifier |-> scaled, saved |-> FALSE]
            [] outcome = "save_error" ->
                 [raised |-> TRUE, verifier |-> fitted, saved |-> FALSE]
            [] OTHER -> [raised |-> FALSE, verifier |-> fitted, saved |-> TRUE]
  ELSE LET counted == [v EXCEPT !.n_samples = @ + 1]
       IN CASE ~v.scaler_fitted \/ outcome \in {"scale_error", "fit_error"} ->
                 [raised |-> TRUE, verifier |-> v, saved |-> FALSE]
            [] outcome = "save_error" ->
                 [raised |-> TRUE, verifier |-> counted, saved |-> FALSE]
            [] OTHER -> [raised |-> FALSE, verifier |-> counted, saved |-> TRUE]

\* A plausible slip: the fields are reset, the file is left where it is.
reset_model_keeps_store(v, store, unlinked) ==
  [raised |-> FALSE,
   verifier |-> [v EXCEPT !.model = FALSE, !.scaler_fitted = FALSE,
                          !.is_trained = FALSE, !.n_samples = 0],
   store |-> store]

\* SpeakerVerifier.reset_model: [raised, verifier, store]; the fields are
\* reset first, then the store is unlinked if it exists, which can fail
reset_model(v, store, unlinked) ==
  [raised |-> store.present /\ ~unlinked,
   verifier |-> [v EXCEPT !.model = FALSE, !.scaler_fitted = FALSE,
                          !.is_trained = FALSE, !.n_samples = 0],
   store |-> IF store.present /\ unlinked THEN NoStore ELSE store]

\* no call of the verifier yet; stored: a store was there to begin with
NoCall(stored) ==
  [op |-> "none", raised |-> FALSE, error |-> "none", authorized |-> FALSE,
   config |-> 0, enrolled |-> FALSE, stored |-> stored,
   fault |-> "none", exception |-> "none", prediction |-> 0, probability |-> 0,
   confidence |-> 0]

\* the exception class of a failed call of verify or train
SpeakerVerificationError == "SpeakerVerificationError"

\* what went wrong inside a call of train: the step that failed; an unfitted
\* scaler fails the transform of every later sample
train_fault(v, outcome) ==
  IF outcome # "ok" THEN outcome
  ELSE IF v.model /\ ~v.scaler_fitted THEN "scale_error"
  ELSE "none"

\* what went wrong inside a call of verify on a trained verifier
verify_fault(is_trained, answer) ==
  IF is_trained /\ answer.kind # "prediction" THEN answer.kind ELSE "none"

\* the fields of the call record that belong to one call
ClearedCall ==
  [gateCall EXCEPT !.raised = FALSE, !.error = "none", !.authorized = FALSE,
                   !.fault = "none", !.exception = "none", !.prediction = 0,
                   !.probability = 0, !.confidence = 0]

\* the variables of the assistant and of the validator
Pipeline ==
  <<source, commandsJson, validator, altJson, args, env, pc, exitCode, failure,
    executor, router, transcriber, uttNo, utt, spawned, capture, retry, training, wake>>

\* get_verifier() in a new process: SpeakerVerifier(config_path)
VerifierInit ==
  /\ \E threshold \in GateThresholds :
       /\ verifier' = verifier_init(threshold, modelStore)
       /\ gateCall' = [ClearedCall EXCEPT !.op = "init", !.config = threshold]
  /\ UNCHANGED <<Pipeline, modelStore>>

\* verifier.train(audio)
Train ==
  /\ verifier.built
  /\ verifier.n_samples < MaxSamples
  /\ \E outcome \in TrainOutcomes :
       LET r == train(verifier, outcome) IN
       /\ verifier' = r.verifier
       /\ modelStore' = IF r.saved THEN save_model(r.verifier) ELSE modelStore
       /\ gateCall' = [ClearedCall EXCEPT
                         !.op = "train", !.raised = r.raised,
                         !.error = IF r.raised THEN "TrainingFailed" ELSE "none",
                         !.exception = IF r.raised THEN SpeakerVerificationError ELSE "none",
                         !.fault = train_fault(verifier, outcome),
                         !.enrolled = @ \/ ~r.raised]
  /\ UNCHANGED Pipeline

\* verifier.verify(audio)
Verify ==
  /\ verifier.built
  /\ \E answer \in GateAnswers :
       LET r == verify(verifier.is_trained, verifier.threshold, answer) IN
       gateCall' = [ClearedCall EXCEPT
                      !.op = "verify", !.raised = r.raised, !.error = r.error,
                      !.exception = IF r.raised THEN SpeakerVerificationError ELSE "none",
                      !.fault = verify_fault(verifier.is_trained, answer),
                      !.authorized = r.authorized,
                      !.confidence = r.confidence,
                      !.prediction = IF verifier.is_trained THEN answer.prediction ELSE 0,
                      !.probability = IF verifier.is_trained THEN answer.confidence ELSE 0]
  /\ UNCHANGED <<Pipeline, verifier, modelStore>>

\* verifier.reset_model()
ResetModel ==
  /\ verifier.built
  /\ \E unlinked \in BOOLEAN :
       LET r == reset_model(verifier, modelStore, unlinked) IN
       /\ verifier' = r.verifier
       /\ modelStore' = r.store
       /\ gateCall' = [ClearedCall EXCEPT
                         !.op = "reset", !.raised = r.raised,
                         !.error = IF r.raised THEN "OSError" ELSE "none",
                         !.exception = IF r.raised THEN "OSError" ELSE "none"]
  /\ UNCHANGED Pipeline

(***************************************************************************)
(* src/asr/transcribe.py                                                   *)
(***************************************************************************)
\* what the recognition service returns: a text, or a failure
Recognitions ==
  [ok : {TRUE}, text : { <<"x">>, DefaultWakeword, DefaultWakeword \o <<" ", "x">> }]
    \cup {[ok |-> FALSE, text |-> <<>>]}

\* SpeechTranscriber.transcribe, the call of the speaker gate: "skipped" when
\* the verification is off, else what verifier.verify(audio) gave
speaker_gate(t, trained, threshold, answer) ==
  IF t.verify_speaker /\ t.has_verifier
  THEN LET v == verify(trained, threshold, answer) IN
       IF v.raised THEN "error"
       ELSE IF v.authorized THEN "authorized" ELSE "unauthorized"
  ELSE "skipped"

\* A plausible slip: the result of verify is logged and not acted upon.
after_verification_logged(gate) == "recognize"

\* SpeechTranscriber.transcribe, what follows the call: UnauthorizedSpeakerError
\* for an unauthorized speaker; a SpeakerVerificationError is logged and the
\* recognition goes on without verification
after_verification(gate) ==
  IF gate = "unauthorized" THEN "raise_unauthorized" ELSE "recognize"

\* the transcriber reads no setting that says whether a failing gate lets the
\* utterance through
fail_open_configured == FALSE

\* SpeechTranscriber.__init__ as get_transcriber(verify_speaker) runs it on
\* first use: a verifier that cannot be built switches the verification off
new_transcriber(verify_speaker, verifier_available) ==
  [built |-> TRUE,
   verify_speaker |-> verify_speaker /\ verifier_available,
   has_verifier |-> verify_speaker /\ verifier_available]

NoTranscriber == [built |-> FALSE, verify_speaker |-> FALSE, has_verifier |-> FALSE]

(***************************************************************************)
(* src/main.py                                                             *)
(***************************************************************************)
NotExited == 0 - 1

\* how main() dispatches: --voice, a text argument, or neither
Mode == IF args.voice THEN "voice" ELSE IF args.text # <<>> THEN "single" ELSE "interactive"

\* the model has not been asked
NoPrediction == [kind |-> "none", intent_id |-> <<>>]

NewUtterance(n, text) ==
  [no |-> n, text |-> text, clean |-> <<>>, intent_id |-> <<>>, confidence |-> 0,
   classified |-> FALSE, decision |-> "none", answered |-> FALSE, response |-> <<>>,
   verify |-> "none", nClassify |-> 0, nRoute |-> 0, nExecute |-> 0, nPrompt |-> 0,
   nSpawn |-> 0, detail |-> "none", predicted |-> NoPrediction,
   outcome |-> "pending"]

\* the answers typed at the confirmation prompt
ConfirmAnswers ==
  { <<"y">>, <<"y", "e", "s">>, <<" ", "Y", " ">>, <<"n">>, <<>>, <<"y", "e">>, <<"n", "o">> }

\* A plausible slip: everything but a refusal counts as a yes.
is_affirmative_lenient(raw) == Lower(Strip(raw)) \notin { <<"n">>, <<"n", "o">> }

\* process_text: input("   > ").strip().lower() in ('y', 'yes')
is_affirmative(raw) == Lower(Strip(raw)) \in { <<"y">>, <<"y", "e", "s">> }

\* the record of a child process launched for utterance n
Launch(n, command_id, r, via) ==
  [utt |-> n, id |-> command_id, argv |-> r.argv, via |-> via, child |-> r.child,
   ended |-> r.waited]

\* A plausible slip: an interrupt is reported like any other exception.
Raise_ungraceful(exception) ==
  /\ pc' = "exit"
  /\ failure' = exception
  /\ exitCode' = 1

\* An exception leaves the running mode: main() (or run_voice) turns it into
\* exit status 1; a KeyboardInterrupt ends the interactive and the voice mode
\* with status 0 and is not caught at all in single-text mode.
Raise(exception) ==
  /\ pc' = "exit"
  /\ failure' = exception
  /\ exitCode' = IF exception = "KeyboardInterrupt"
                 THEN (IF Mode = "single" THEN 130 ELSE 0)
                 ELSE 1

\* A plausible slip: a loop ends with status 1 when process_text reports a
\* failure.
Returned_stops_on_failure(success) ==
  /\ failure' = failure
  /\ CASE Mode = "single" -> pc' = "exit" /\ exitCode' = (IF success THEN 0 ELSE 1)
       [] ~success -> pc' = "exit" /\ exitCode' = 1
       [] Mode = "interactive" -> pc' = "input" /\ exitCode' = exitCode
       [] OTHER -> IF args.continuous
                   THEN pc' = "listen" /\ exitCode' = exitCode
                   ELSE pc' = "exit" /\ exitCode' = 0

\* process_text has returned success (a boolean) to the mode that called it
Returned(success) ==
  /\ failure' = failure
  /\ CASE Mode = "interactive" -> pc' = "input" /\ exitCode' = exitCode
       [] Mode = "single" -> pc' = "exit" /\ exitCode' = (IF success THEN 0 ELSE 1)
       [] OTHER -> IF args.continuous
                   THEN pc' = "listen" /\ exitCode' = exitCode
                   ELSE pc' = "exit" /\ exitCode' = 0

\* the files and settings no step of the assistant writes
Installed ==
  <<source, commandsJson, validator, altJson, args, env, verifier, modelStore, gateCall,
    retry, training, wake>>

\* main(): AuroraAssistant.__init__ (the executor, then the router), then the
\* dispatch to run_voice, run_single or run_interactive
Main ==
  /\ pc = "main"
  /\ LET file == IF args.commands = "alt" THEN altJson ELSE commandsJson IN
     IF executor_init(file) # "none"
     THEN /\ Raise(executor_init(file))
          /\ UNCHANGED <<executor, router, uttNo, utt>>
     ELSE /\ executor' = [built |-> TRUE, commands |-> file.doc]
          /\ IF ~thresholds_valid(args.confirm, args.auto)
             THEN /\ Raise("ValueError")
                  /\ UNCHANGED <<router, uttNo, utt>>
             ELSE /\ router' = [built |-> TRUE, auto |-> args.auto, confirm |-> args.confirm]
                  /\ failure' = failure
                  /\ exitCode' = exitCode
                  /\ CASE Mode = "voice" -> pc' = "voice_setup" /\ UNCHANGED <<uttNo, utt>>
                       [] Mode = "single" ->
                            /\ pc' = "classify"
                            /\ uttNo' = uttNo + 1
                            /\ utt' = NewUtterance(uttNo + 1, args.text)
                       [] OTHER -> pc' = "input" /\ UNCHANGED <<uttNo, utt>>
  /\ UNCHANGED <<Installed, transcriber, capture, spawned>>

\* the lines typed at the interactive prompt
InputTexts ==
  { <<>>, <<" ">>, <<" ", "x", " ">>, DefaultWakeword, DefaultWakeword \o <<" ", "x">> }

\* run_interactive: text = input("You: ").strip(); an empty line is ignored
ReadInput ==
  /\ pc = "input"
  /\ \E raw \in InputTexts :
       IF Strip(raw) = <<>>
       THEN UNCHANGED <<pc, uttNo, utt>>
       ELSE /\ uttNo < MaxUtterances
            /\ pc' = "classify"
            /\ uttNo' = uttNo + 1
            /\ utt' = NewUtterance(uttNo + 1, Strip(raw))
  /\ UNCHANGED <<Installed, exitCode, failure, executor, router, transcriber, capture, spawned>>

\* what model.predict and the label map gave for text: nothing when predict
\* fails before the model is asked (empty text, no commands.json)
asked(text, answer) ==
  IF ~commandsJson.present \/ Strip(text) = <<>> \/ answer.kind = "model_error"
  THEN NoPrediction
  ELSE [kind |-> answer.kind, intent_id |-> answer.intent_id]

\* process_text, steps 0 and 1: strip the wakeword, predict the intent
Classify ==
  /\ pc = "classify"
  /\ \E answer \in ModelAnswers :
       LET clean == remove_wakeword(utt.text)
           r == predict(clean, answer)
       IN IF ~r.ok
          THEN /\ utt' = [utt EXCEPT !.clean = clean, !.nClassify = @ + 1,
                                     !.predicted = asked(clean, answer),
                                     !.outcome = "predict_error"]
               /\ Returned(FALSE)
          ELSE /\ utt' = [utt EXCEPT !.clean = clean, !.nClassify = @ + 1,
                                     !.predicted = asked(clean, answer),
                                     !.classified = TRUE, !.intent_id = r.intent_id,
                                     !.confidence = r.confidence]
               /\ pc' = "route"
               /\ UNCHANGED <<exitCode, failure>>
  /\ UNCHANGED <<Installed, executor, router, transcriber, capture, uttNo, spawned>>

\* A plausible slip: a command that failed is run again, the utterance is
\* left where it was.
RunCommand_retrying(u, via) ==
  \E child \in ChildOutcomes :
    LET r == execute(executor.commands, u.intent_id, child)
        called == [u EXCEPT !.nExecute = @ + 1, !.detail = r.detail,
                            !.nSpawn = IF r.launched THEN @ + 1 ELSE @]
    IN
    /\ spawned' = IF r.launched
                  THEN spawned \cup {Launch(u.no, u.intent_id, r, via)}
                  ELSE spawned
    /\ CASE r.raised = "none" ->
              /\ utt' = [called EXCEPT !.outcome = "executed"]
              /\ Returned(TRUE)
         [] r.raised = "CommandNotAllowedError" ->
              /\ utt' = [called EXCEPT !.outcome = r.raised]
              /\ Returned(FALSE)
         [] OTHER ->
              /\ utt' = called
              /\ UNCHANGED <<pc, exitCode, failure>>

\* One call of executor.execute for the pending intent, by the router
\* (via = "router") or by process_text after a yes (via = "direct"), and what
\* process_text does with its result.
RunCommand(u, via) ==
  \E child \in ChildOutcomes :
    LET r == execute(executor.commands, u.intent_id, child)
        called == [u EXCEPT !.nExecute = @ + 1, !.detail = r.detail,
                            !.nSpawn = IF r.launched THEN @ + 1 ELSE @]
    IN
    /\ spawned' = IF r.launched
                  THEN spawned \cup {Launch(u.no, u.intent_id, r, via)}
                  ELSE spawned
    /\ CASE r.raised = "none" ->
              /\ utt' = [called EXCEPT !.outcome = "executed"]
              /\ Returned(TRUE)
         [] r.raised \in {"CommandNotAllowedError", "CommandExecutionError"} ->
              /\ utt' = [called EXCEPT !.outcome = r.raised]
              /\ Returned(FALSE)
         [] OTHER ->
              /\ utt' = [called EXCEPT !.outcome = r.raised]
              /\ Raise(r.raised)

\* A plausible slip: the router runs the command whenever the confidence is
\* not rejected, and asks for no confirmation.
RouteWithoutConfirm ==
  /\ pc = "route"
  /\ LET d == route_decision(utt.confidence, router.confirm, router.auto)
         u == [utt EXCEPT !.nRoute = @ + 1, !.decision = d]
     IN IF d = "Reject"
        THEN /\ utt' = [u EXCEPT !.outcome = "rejected"]
             /\ Returned(FALSE)
             /\ UNCHANGED spawned
        ELSE RunCommand(u, "router")
  /\ UNCHANGED <<Installed, executor, router, transcriber, capture, uttNo>>

\* A plausible slip: the router catches what the executor raises and returns
\* as if the command had run.
RouteSwallowsErrors ==
  /\ pc = "route"
  /\ LET d == route_decision(utt.confidence, router.confirm, router.auto)
         u == [utt EXCEPT !.nRoute = @ + 1, !.decision = d]
     IN CASE d = "Reject" ->
               /\ utt' = [u EXCEPT !.outcome = "rejected"]
               /\ Returned(FALSE)
               /\ UNCHANGED spawned
          [] d = "Confirm" ->
               /\ utt' = [u EXCEPT !.nPrompt = @ + 1]
               /\ pc' = "confirm"
               /\ UNCHANGED <<exitCode, failure, spawned>>
          [] OTHER ->
               \E child \in ChildOutcomes :
                 LET r == execute(executor.commands, u.intent_id, child) IN
                 /\ spawned' = IF r.launched
                               THEN spawned \cup {Launch(u.no, u.intent_id, r, "router")}
                               ELSE spawned
                 /\ utt' = [u EXCEPT !.nExecute = @ + 1, !.detail = r.detail,
                                     !.nSpawn = IF r.launched THEN @ + 1 ELSE @,
                                     !.outcome = "executed"]
                 /\ Returned(TRUE)
  /\ UNCHANGED <<Installed, executor, router, transcriber, capture, uttNo>>

\* A plausible slip: execute takes the entry out of the registry
\* (self.commands.pop(command_id)) in the place of reading it.
Route_pops_entry ==
  /\ pc = "route"
  /\ LET d == route_decision(utt.confidence, router.confirm, router.auto)
         u == [utt EXCEPT !.nRoute = @ + 1, !.decision = d]
     IN CASE d = "Reject" ->
               /\ utt' = [u EXCEPT !.outcome = "rejected"]
               /\ Returned(FALSE)
               /\ UNCHANGED <<spawned, executor>>
          [] d = "Confirm" ->
               /\ utt' = [u EXCEPT !.nPrompt = @ + 1]
               /\ pc' = "confirm"
               /\ UNCHANGED <<exitCode, failure, spawned, executor>>
          [] OTHER ->
               /\ RunCommand(u, "router")
               /\ executor' =
                    [executor EXCEPT !.commands =
                       [k \in DOMAIN executor.commands \ {u.intent_id} |->
                          executor.commands[k]]]
  /\ UNCHANGED <<Installed, router, transcriber, capture, uttNo>>

\* process_text, step 2: router.route(intent_result) and the handlers of what
\* it raises, up to the confirmation prompt
Route ==
  /\ pc = "route"
  /\ LET d == route_decision(utt.confidence, router.confirm, router.auto)
         u == [utt EXCEPT !.nRoute = @ + 1, !.decision = d]
     IN CASE d = "Reject" ->
               /\ utt' = [u EXCEPT !.outcome = "rejected"]
               /\ Returned(FALSE)
               /\ UNCHANGED spawned
          [] d = "Confirm" ->
               /\ utt' = [u EXCEPT !.nPrompt = @ + 1]
               /\ pc' = "confirm"
               /\ UNCHANGED <<exitCode, failure, spawned>>
          [] OTHER -> RunCommand(u, "router")
  /\ UNCHANGED <<Installed, executor, router, transcriber, capture, uttNo>>

\* process_text, the answer to the confirmation prompt
ConfirmAnswer ==
  /\ pc = "confirm"
  /\ \E raw \in ConfirmAnswers :
       LET u == [utt EXCEPT !.answered = TRUE, !.response = raw] IN
       IF is_affirmative(raw)
       THEN RunCommand(u, "direct")
       ELSE /\ utt' = [u EXCEPT !.outcome = "cancelled"]
            /\ Returned(FALSE)
            /\ UNCHANGED spawned
  /\ UNCHANGED <<Installed, executor, router, transcriber, capture, uttNo>>

\* run_voice up to the loop: get_capture, get_transcriber(verify_speaker),
\* capture.calibrate(), which a microphone error ends
VoiceSetup ==
  /\ pc = "voice_setup"
  /\ transcriber' = IF transcriber.built THEN transcriber
                    ELSE new_transcriber(args.verify, env.available)
  /\ \E calibrated \in BOOLEAN :
       IF calibrated
       THEN pc' = "listen" /\ UNCHANGED <<exitCode, failure, capture>>
       ELSE Raise("MicrophoneError") /\ capture' = [capture EXCEPT !.failed = TRUE]
  /\ UNCHANGED <<Installed, executor, router, uttNo, utt, spawned>>

\* AudioCapture.listen_with_retry(max_retries=3, ...): the attempts it makes
\* before it raises TimeoutError.  run_voice does not call it.
max_retries == 3

\* A plausible slip: a microphone error is handled like a timeout, and the
\* continuous loop listens again.
Listen_retries_mic_error ==
  /\ pc = "listen"
  /\ \E heard \in {"audio", "timeout", "mic_error"} :
       CASE heard = "audio" ->
              /\ uttNo < MaxUtterances
              /\ pc' = "transcribe"
              /\ uttNo' = uttNo + 1
              /\ utt' = NewUtterance(uttNo + 1, <<>>)
              /\ capture' = [capture EXCEPT !.timeouts = 0]
              /\ UNCHANGED <<exitCode, failure>>
         [] heard = "timeout" ->
              /\ uttNo = 0 => capture.timeouts < MaxTimeouts
              /\ capture' = IF uttNo = 0
                            THEN [capture EXCEPT !.timeouts = @ + 1]
                            ELSE capture
              /\ IF args.continuous
                 THEN UNCHANGED <<pc, exitCode, failure>>
                 ELSE pc' = "exit" /\ exitCode' = 0 /\ failure' = failure
              /\ UNCHANGED <<uttNo, utt>>
         [] OTHER ->
              /\ capture' = [capture EXCEPT !.failed = TRUE]
              /\ IF args.continuous
                 THEN UNCHANGED <<pc, exitCode, failure>>
                 ELSE Raise("MicrophoneError")
              /\ UNCHANGED <<uttNo, utt>>
  /\ UNCHANGED <<Installed, executor, router, transcriber, spawned>>

\* run_voice, capture.listen(timeout=5, phrase_time_limit=10): a sample, a
\* timeout or a microphone error.  A timeout ends the single-shot session
\* with status 0; in continuous mode the loop continues, whatever the number
\* of timeouts before it (the number is kept up to the first sample).
Listen ==
  /\ pc = "listen"
  /\ \E heard \in {"audio", "timeout", "mic_error"} :
       CASE heard = "audio" ->
              /\ uttNo < MaxUtterances
              /\ pc' = "transcribe"
              /\ uttNo' = uttNo + 1
              /\ utt' = NewUtterance(uttNo + 1, <<>>)
              /\ capture' = [capture EXCEPT !.timeouts = 0]
              /\ UNCHANGED <<exitCode, failure>>
         [] heard = "timeout" ->
              /\ uttNo = 0 => capture.timeouts < MaxTimeouts
              /\ capture' = IF uttNo = 0
                            THEN [capture EXCEPT !.timeouts = @ + 1]
                            ELSE capture
              /\ IF args.continuous
                 THEN UNCHANGED <<pc, exitCode, failure>>
                 ELSE pc' = "exit" /\ exitCode' = 0 /\ failure' = failure
              /\ UNCHANGED <<uttNo, utt>>
         [] OTHER ->
              /\ capture' = [capture EXCEPT !.failed = TRUE]
              /\ Raise("MicrophoneError")
              /\ UNCHANGED <<uttNo, utt>>
  /\ UNCHANGED <<Installed, executor, router, transcriber, spawned>>

\* run_voice after UnauthorizedSpeakerError or TranscriptionError: listen
\* again in continuous mode, return 1 otherwise
Dropped ==
  /\ failure' = failure
  /\ IF args.continuous
     THEN pc' = "listen" /\ exitCode' = exitCode
     ELSE pc' = "exit" /\ exitCode' = 1

\* run_voice, transcriber.transcribe(audio): the speaker verification, then
\* the recognition
Transcribe ==
  /\ pc = "transcribe"
  /\ \E answer \in GateAnswers, heard \in Recognitions :
       LET gate == speaker_gate(transcriber, env.trained, env.threshold, answer) IN
       IF after_verification(gate) = "raise_unauthorized"
       THEN /\ utt' = [utt EXCEPT !.verify = gate, !.outcome = "unauthorized"]
            /\ Dropped
       ELSE IF ~heard.ok
       THEN /\ utt' = [utt EXCEPT !.verify = gate, !.outcome = "transcription_error"]
            /\ Dropped
       ELSE /\ utt' = [utt EXCEPT !.verify = gate, !.text = heard.text]
            /\ pc' = "classify"
            /\ UNCHANGED <<exitCode, failure>>
  /\ UNCHANGED <<Installed, executor, router, transcriber, capture, uttNo, spawned>>

\* Ctrl+C, or the end of the input, during a blocking wait
Interrupt ==
  /\ \/ pc \in {"input", "confirm", "voice_setup", "listen", "transcribe"}
          /\ Raise("KeyboardInterrupt")
     \/ pc \in {"input", "confirm"} /\ Raise("EOFError")
  /\ UNCHANGED <<Installed, executor, router, transcriber, capture, uttNo, utt, spawned>>

(***************************************************************************)
(* The declarative sources the validator is run on: every file of at most  *)
(* MaxLines lines drawn from these lines (blank, comment, well-formed,     *)
(* quoted, and one line per way of being rejected).                        *)
(***************************************************************************)
SourceLines ==
  { <<>>,
    <<" ", " ">>,
    <<"#", " ", "A", "=", "x", ";", "y">>,
    <<"A", "=", "x">>,
    <<" ", "A", " ", "=", " ", "x", " ", "y", " ">>,
    <<"B", "=", "x">>,
    <<"B", " ", "=", " ", "\"", "x", " ", "y", "\"">>,
    <<"A", "=", "x", ";", "y">>,
    <<"A", " ", "=", " ", "x", " ", "&", "&", " ", "y">>,
    <<"B", "=", "x", "|", "|", "y">>,
    <<"B", "=", "x", "|", "y">>,
    <<"A", "=", Backquote, "x", Backquote>>,
    <<"A", "=", "$", "(", "x", ")">>,
    <<"B", "=", "x", ">", "y">>,
    <<"A", "=", "x", "<", "y">>,
    <<"A", "=">>,
    <<"=", "x">>,
    <<"1", "A", "=", "x">>,
    <<"A", " ", "x">>,
    <<"B", "=", "'", "x">>,
    <<"A", "=", "x", "\\">>,
    <<"A", "=", "x", "=", "y">>,
    <<"A", " ", "B", "=", "x", ";">>,
    <<"A", "=", "$", "x">>,
    <<"B", "=", "a", "&", "b">>,
    <<"A", " ", ";">>,
    <<"B", "=", "'", "x", ";">>,
    <<"1", "=">> }

SourceFiles == UNION { [1..n -> SourceLines] : n \in 0..MaxLines }

\* a commands.json left by an earlier run of the validator
StaleDoc == (<<"B">> :> [cmd |-> <<"y">>, danger |-> "unknown"])

vars ==
  <<source, commandsJson, validator, altJson, args, env, pc, exitCode, failure,
    executor, router, transcriber, uttNo, utt, spawned, capture, retry, training, wake,
    verifier,
    modelStore, gateCall>>

NoFile == [present |-> FALSE, doc |-> NoCommands]

NoArgs ==
  [voice |-> FALSE, continuous |-> FALSE, verify |-> FALSE, text |-> <<>>,
   auto |-> ConfSteps, confirm |-> 0, commands |-> "default"]

NoGate == [available |-> FALSE, trained |-> FALSE, threshold |-> 0]

\* the assistant before main() has run
NotStarted ==
  /\ pc = "main"
  /\ exitCode = NotExited
  /\ failure = "none"
  /\ executor = [built |-> FALSE, commands |-> NoCommands]
  /\ router = [built |-> FALSE, auto |-> 0, confirm |-> 0]
  /\ transcriber = NoTranscriber
  /\ uttNo = 0
  /\ utt = NewUtterance(0, <<>>)
  /\ spawned = {}
  /\ capture = [timeouts |-> 0, failed |-> FALSE]

\* listen_with_retry has not been called
NoRetry ==
  [max_retries |-> 0, auto_calibrate |-> FALSE, pc |-> "idle", attempt |-> 0,
   heard |-> <<>>, calibrations |-> 0, result |-> "none"]

\* no speaker training session
NoTraining ==
  [pc |-> "idle", n |-> 0, i |-> 0, successful |-> 0, ended |-> "none",
   exitCode |-> 0 - 1]

\* neither of the two is running
CaptureIdle == retry = NoRetry /\ training = NoTraining

\* no text has been given to the wakeword processor on its own
NoWake == [text |-> <<>>, prev |-> <<>>, out |-> <<>>, n |-> 0]

\* no speaker model and no verifier: the validator and a session without
\* --single-voice touch neither
GateIdle ==
  /\ verifier = NoVerifier
  /\ modelStore = NoStore
  /\ gateCall = NoCall(FALSE)

InitLoad ==
  /\ source \in [present : {TRUE}, lines : SourceFiles]
                  \cup {[present |-> FALSE, lines |-> <<>>]}
  /\ commandsJson \in {[present |-> FALSE, doc |-> NoCommands],
                       [present |-> TRUE, doc |-> StaleDoc]}
  /\ validator = [pc |-> "start", exit |-> 0, lineno |-> 0, kind |-> "none"]
  /\ altJson = NoFile
  /\ args = NoArgs
  /\ env = NoGate
  /\ NotStarted
  /\ wake = NoWake
  /\ CaptureIdle
  /\ GateIdle

NextLoad == ValidatorMain

SpecLoad == InitLoad /\ [][NextLoad]_vars

(***************************************************************************)
(* The assistant.  It starts on an installation the validator has been run *)
(* on: a source that compiles to one command, one that compiles to two (one*)
(* of them quoted), and one the validator rejects, which leaves no         *)
(* commands.json.                                                          *)
(***************************************************************************)
OneCommand == << <<"A", "=", "x">> >>

TwoCommands ==
  << <<" ", "A", " ", "=", " ", "x", " ", "y", " ">>,
     <<"B", " ", "=", " ", "\"", "x", " ", "y", "\"">> >>

Rejected == << <<"A", "=", "x", ";", "y">> >>

\* commands.json after the validator has run on lines, none having been there
Compiled(lines) ==
  IF parse_commands_file(lines).ok
  THEN [present |-> TRUE, doc |-> parse_commands_file(lines).commands]
  ELSE NoFile

\* validator as ValidatorMain leaves it
Validated(lines) ==
  LET r == parse_commands_file(lines) IN
  [pc |-> "done", exit |-> IF r.ok THEN 0 ELSE 2, lineno |-> r.lineno, kind |-> r.kind]

\* a registry file written by hand, not by the validator: a non-empty JSON
\* object, which is all CommandExecutor.__init__ asks of it; the command of
\* its entry is blank
HandWritten ==
  [present |-> TRUE, doc |-> (<<"A">> :> [cmd |-> <<" ">>, danger |-> "unknown"])]

\* [lines, alt, by]: the source behind commands.json, the source behind the
\* file --commands names (<<>>: no such option), and who wrote that file
Installations ==
  { [lines |-> TwoCommands, alt |-> <<>>, by |-> "validator"],
    [lines |-> OneCommand, alt |-> <<>>, by |-> "validator"],
    [lines |-> Rejected, alt |-> <<>>, by |-> "validator"],
    [lines |-> TwoCommands, alt |-> OneCommand, by |-> "validator"],
    [lines |-> OneCommand, alt |-> Rejected, by |-> "validator"],
    [lines |-> OneCommand, alt |-> <<>>, by |-> "hand"] }

\* the text argument of single-text mode
SingleTexts == { DefaultWakeword \o <<" ", "x">>, DefaultWakeword }

CommandLines ==
  [voice : {FALSE}, continuous : {FALSE}, verify : {FALSE},
   text : {<<>>} \cup SingleTexts,
   auto : ThresholdValues, confirm : ThresholdValues, commands : {"default"}]
    \cup
  [voice : {TRUE}, continuous : BOOLEAN, verify : BOOLEAN, text : {<<>>},
   auto : ThresholdValues, confirm : ThresholdValues, commands : {"default"}]

\* the speaker gates a voice session with verification can find
Gates ==
  [available : {TRUE}, trained : BOOLEAN, threshold : {ConfSteps}] \cup {NoGate}

Init ==
  /\ \E i \in Installations :
       /\ source = [present |-> TRUE, lines |-> i.lines]
       /\ validator = Validated(i.lines)
       /\ commandsJson = Compiled(i.lines)
       /\ altJson = IF i.by = "hand" THEN HandWritten
                    ELSE IF i.alt = <<>> THEN NoFile ELSE Compiled(i.alt)
       /\ \E c \in CommandLines :
            args = [c EXCEPT !.commands = IF i.alt = <<>> /\ i.by = "validator"
                                          THEN "default" ELSE "alt"]
  /\ env \in (IF args.voice /\ args.verify THEN Gates ELSE {NoGate})
  /\ NotStarted
  /\ wake = NoWake
  /\ CaptureIdle
  /\ GateIdle

Next ==
  \/ Main
  \/ ReadInput
  \/ Classify
  \/ Route
  \/ ConfirmAnswer
  \/ VoiceSetup
  \/ Listen
  \/ Transcribe
  \/ Interrupt

Spec == Init /\ [][Next]_vars

(***************************************************************************)
(* The speaker verifier on its own: processes that construct it on a store *)
(* an earlier process may have left, and train, verify and reset it.       *)
(***************************************************************************)
\* the stores an earlier training session can have left
EarlierStores ==
  [present : {TRUE}, model : {TRUE}, scaler_fitted : {TRUE}, is_trained : {TRUE},
   n_samples : 1..(MaxSamples - 1), threshold : GateThresholds]

InitGate ==
  /\ source = [present |-> FALSE, lines |-> <<>>]
  /\ commandsJson = NoFile
  /\ validator = [pc |-> "start", exit |-> 0, lineno |-> 0, kind |-> "none"]
  /\ altJson = NoFile
  /\ args = NoArgs
  /\ env = NoGate
  /\ NotStarted
  /\ wake = NoWake
  /\ CaptureIdle
  /\ verifier = NoVerifier
  /\ modelStore \in EarlierStores \cup {NoStore}
  /\ gateCall = NoCall(modelStore.present)

NextGate ==
  \/ VerifierInit
  \/ Train
  \/ Verify
  \/ ResetModel

SpecGate == InitGate /\ [][NextGate]_vars

(***************************************************************************)
(* The wakeword processor on its own (the default configuration: wakeword  *)
(* "aurora", not case sensitive, removed from the start only), applied to  *)
(* a text and then to its own result.                                      *)
(***************************************************************************)
\* the pieces the texts are made of
WakeWords ==
  { DefaultWakeword, <<"A", "u", "r", "o", "r", "a">>, <<"x">>, <<" ">> }

\* the texts of at most MaxWords pieces
RECURSIVE TextsOf(_)
TextsOf(n) ==
  IF n = 0 THEN { <<>> }
  ELSE TextsOf(n - 1) \cup { t \o w : t \in TextsOf(n - 1), w \in WakeWords }

WakeTexts == TextsOf(MaxWords)

InitWake ==
  /\ source = [present |-> FALSE, lines |-> <<>>]
  /\ commandsJson = NoFile
  /\ validator = [pc |-> "start", exit |-> 0, lineno |-> 0, kind |-> "none"]
  /\ altJson = NoFile
  /\ args = NoArgs
  /\ env = NoGate
  /\ NotStarted
  /\ GateIdle
  /\ CaptureIdle
  /\ \E t \in WakeTexts : wake = [text |-> t, prev |-> t, out |-> t, n |-> 0]

\* remove_wakeword(text), then remove_wakeword of what it returned
StripWakeword ==
  /\ wake.n < 2
  /\ wake' = [wake EXCEPT !.prev = wake.out, !.out = remove_wakeword(wake.out),
                          !.n = @ + 1]
  /\ UNCHANGED <<source, commandsJson, validator, altJson, args, env, pc, exitCode,
                 failure, executor, router, transcriber, uttNo, utt, spawned,
                 capture, retry, training, verifier, modelStore, gateCall>>

NextWake == StripWakeword

SpecWake == InitWake /\ [][NextWake]_vars

(***************************************************************************)
(* AudioCapture.listen_with_retry on its own: one call, with max_retries    *)
(* from 0 to MaxRetries, with and without auto_calibrate.                  *)
(***************************************************************************)
InitRetry ==
  /\ source = [present |-> FALSE, lines |-> <<>>]
  /\ commandsJson = NoFile
  /\ validator = [pc |-> "start", exit |-> 0, lineno |-> 0, kind |-> "none"]
  /\ altJson = NoFile
  /\ args = NoArgs
  /\ env = NoGate
  /\ NotStarted
  /\ GateIdle
  /\ wake = NoWake
  /\ training = NoTraining
  /\ \E n \in 0..MaxRetries, calibrate \in BOOLEAN :
       retry = [NoRetry EXCEPT !.max_retries = n, !.auto_calibrate = calibrate,
                               !.pc = "loop", !.attempt = 1]

\* what a call of listen gives: a sample, TimeoutError or MicrophoneError
Heard == {"audio", "timeout", "mic_error"}

\* the variables listen_with_retry and run_speaker_training do not touch
NotCaptured ==
  <<source, commandsJson, validator, altJson, args, env, pc, exitCode, failure,
    executor, router, transcriber, uttNo, utt, spawned, capture, wake, gateCall>>

\* A plausible slip: range(max_retries + 1), the first attempt is not
\* counted among the retries.
ListenWithRetry_one_more ==
  /\ retry.pc = "loop"
  /\ IF retry.attempt > retry.max_retries + 1
     THEN retry' = [retry EXCEPT !.pc = "done", !.result = "None"]
     ELSE \E heard \in Heard :
            LET called == [retry EXCEPT
                             !.heard = Append(@, heard),
                             !.calibrations =
                                IF retry.auto_calibrate /\ retry.attempt = 1
                                THEN @ + 1 ELSE @]
            IN CASE heard = "audio" ->
                      retry' = [called EXCEPT !.pc = "done", !.result = "audio"]
                 [] heard = "timeout" ->
                      retry' = IF retry.attempt < retry.max_retries + 1
                               THEN [called EXCEPT !.attempt = @ + 1]
                               ELSE [called EXCEPT !.pc = "done", !.result = "None"]
                 [] OTHER ->
                      retry' = [called EXCEPT !.pc = "done", !.result = "MicrophoneError"]
  /\ UNCHANGED <<NotCaptured, training, verifier, modelStore>>

\* listen_with_retry, one turn of `for attempt in range(1, max_retries + 1)`:
\* the call of listen and the handler of what it raised; a range that is
\* used up ends the function, which then returns None
ListenWithRetry ==
  /\ retry.pc = "loop"
  /\ IF retry.attempt > retry.max_retries
     THEN retry' = [retry EXCEPT !.pc = "done", !.result = "None"]
     ELSE \E heard \in Heard :
            LET called == [retry EXCEPT
                             !.heard = Append(@, heard),
                             !.calibrations =
                                IF retry.auto_calibrate /\ retry.attempt = 1
                                THEN @ + 1 ELSE @]
            IN CASE heard = "audio" ->
                      retry' = [called EXCEPT !.pc = "done", !.result = "audio"]
                 [] heard = "timeout" ->
                      retry' = IF retry.attempt < retry.max_retries
                               THEN [called EXCEPT !.attempt = @ + 1]
                               ELSE [called EXCEPT !.pc = "done", !.result = "None"]
                 [] OTHER ->
                      retry' = [called EXCEPT !.pc = "done", !.result = "MicrophoneError"]
  /\ UNCHANGED <<NotCaptured, training, verifier, modelStore>>

NextRetry == ListenWithRetry

SpecRetry == InitRetry /\ [][NextRetry]_vars

(***************************************************************************)
(* src/main.py, run_speaker_training: a session that asks for n samples on *)
(* a store an earlier session may have left.                               *)
(***************************************************************************)
InitEnroll ==
  /\ source = [present |-> FALSE, lines |-> <<>>]
  /\ commandsJson = NoFile
  /\ validator = [pc |-> "start", exit |-> 0, lineno |-> 0, kind |-> "none"]
  /\ altJson = NoFile
  /\ args = NoArgs
  /\ env = NoGate
  /\ NotStarted
  /\ wake = NoWake
  /\ retry = NoRetry
  /\ verifier = NoVerifier
  /\ modelStore \in EarlierStores \cup {NoStore}
  /\ gateCall = NoCall(modelStore.present)
  /\ \E n \in 1..MaxSamples : training = [NoTraining EXCEPT !.pc = "setup", !.n = n]

\* the session has returned
Ended(how, status) == [training EXCEPT !.pc = "done", !.ended = how, !.exitCode = status]

\* run_speaker_training up to the loop: get_capture, get_verifier (which can
\* fail), capture.calibrate (MicrophoneError), the wait for Enter
EnrollSetup ==
  /\ training.pc = "setup"
  /\ \E threshold \in GateThresholds, built \in BOOLEAN, calibrated \in BOOLEAN :
       IF ~built
       THEN training' = Ended("Exception", 1) /\ UNCHANGED verifier
       ELSE /\ verifier' = verifier_init(threshold, modelStore)
            /\ training' = IF calibrated THEN [training EXCEPT !.pc = "loop"]
                           ELSE Ended("MicrophoneError", 1)
  /\ UNCHANGED <<NotCaptured, retry, modelStore>>

\* one turn of `for i in range(n_samples)`: capture.listen, verifier.train,
\* successful_samples += 1; TimeoutError, SpeakerVerificationError and every
\* other Exception (MicrophoneError is one) are answered with continue, which
\* goes on to the next i
EnrollSample ==
  /\ training.pc = "loop"
  /\ training.i < training.n
  /\ \E heard \in Heard, outcome \in TrainOutcomes :
       IF heard # "audio"
       THEN /\ training' = [training EXCEPT !.i = @ + 1]
            /\ UNCHANGED <<verifier, modelStore>>
       ELSE LET r == train(verifier, outcome) IN
            /\ verifier' = r.verifier
            /\ modelStore' = IF r.saved THEN save_model(r.verifier) ELSE modelStore
            /\ training' = [training EXCEPT
                              !.i = @ + 1,
                              !.successful = IF r.raised THEN @ ELSE @ + 1]
  /\ UNCHANGED <<NotCaptured, retry>>

\* the loop is over: "ENTRENAMIENTO COMPLETADO", return 0
EnrollFinish ==
  /\ training.pc = "loop"
  /\ training.i = training.n
  /\ training' = Ended("completed", 0)
  /\ UNCHANGED <<NotCaptured, retry, verifier, modelStore>>

\* Ctrl+C during the session: return 0
EnrollInterrupt ==
  /\ training.pc = "loop"
  /\ training' = Ended("KeyboardInterrupt", 0)
  /\ UNCHANGED <<NotCaptured, retry, verifier, modelStore>>

NextEnroll ==
  \/ EnrollSetup
  \/ EnrollSample
  \/ EnrollFinish
  \/ EnrollInterrupt

SpecEnroll == InitEnroll /\ [][NextEnroll]_vars

(***************************************************************************)
(* Properties.                                                             *)
(***************************************************************************)
\* the launches made for the utterance being processed
LaunchedNow == { s \in spawned : s.utt = utt.no }

\* C1: a child process is launched only for an identifier that is a key of
\* the registry the executor loaded, on the router's path and on the path
\* after a confirmation alike.
C1_TrustBoundary ==
  \A s \in spawned : s.id \in DOMAIN executor.commands /\ s.via \in {"router", "direct"}

\* both paths have launched a command, in a run whose classifier validates
\* against another registry than the executor's
C1_Witness ==
  /\ \E s \in spawned : s.via = "router"
  /\ \E s \in spawned : s.via = "direct"
  /\ args.commands = "alt"

\* C2: execute(id) for an id that is not in the loaded registry fails with
\* CommandNotAllowedError and launches nothing, whoever called it.
C2_NotAllowed ==
  (utt.nExecute > 0 /\ utt.intent_id \notin DOMAIN executor.commands)
    => (utt.outcome = "CommandNotAllowedError" /\ LaunchedNow = {})

\* execute was called, after a yes, with an identifier the classifier accepted
\* and the executor's registry lacks
C2_Witness ==
  /\ utt.nExecute > 0
  /\ utt.intent_id \notin DOMAIN executor.commands
  /\ utt.decision = "Confirm"

\* C3: route decides Reject iff c < confirmation, Confirm iff confirmation <=
\* c < auto-execute, Execute iff c >= auto-execute, whatever the intent, the
\* text and the utterances routed before.
C3_RoutePolicy ==
  utt.decision # "none" =>
    /\ utt.decision = "Reject" <=> utt.confidence < router.confirm
    /\ utt.decision = "Confirm" <=>
         (router.confirm <= utt.confidence /\ utt.confidence < router.auto)
    /\ utt.decision = "Execute" <=> utt.confidence >= router.auto

\* a second utterance is routed to Confirm with a confidence equal to the
\* confirmation threshold, the first one having been executed
C3_Witness ==
  /\ utt.no = 2
  /\ utt.decision = "Confirm"
  /\ utt.confidence = router.confirm
  /\ \E s \in spawned : s.utt = 1 /\ s.via = "router"

\* C4: when route decides Reject or Confirm it calls no executor and changes
\* nothing: no launch by the router for a confidence below auto-execute.
C4_NoExecutorCall ==
  /\ [](\A s \in LaunchedNow : s.via = "router" => utt.confidence >= router.auto)
  /\ [][(pc = "route" /\ utt'.decision \in {"Reject", "Confirm"})
          => /\ spawned' = spawned
             /\ utt'.nExecute = utt.nExecute
             /\ executor' = executor
             /\ router' = router]_vars

\* route has decided Confirm and the prompt is waiting
C4_Witness == pc = "confirm" /\ utt.decision = "Confirm" /\ utt.nRoute = 1

\* C5: the argument vector given to the child is the tokenization the validator
\* accepted at load time (quoting-aware POSIX word splitting).
C5_TokenizedArgv ==
  \A s \in spawned :
    s.id \in DOMAIN executor.commands
      => s.argv = ShlexSplit(executor.commands[s.id].cmd).argv

\* C6: an utterance whose verify call returned authorized = false is aborted:
\* no classifier, router or executor call is made for it.
C6_UnauthorizedVeto ==
  utt.verify = "unauthorized" =>
    /\ utt.outcome = "unauthorized"
    /\ utt.nClassify = 0 /\ utt.nRoute = 0 /\ utt.nExecute = 0
    /\ pc \notin {"classify", "route", "confirm"}
    /\ LaunchedNow = {}

\* a continuous session has dropped an unauthorized utterance and listens again
C6_Witness == utt.verify = "unauthorized" /\ args.continuous /\ pc = "listen"

\* C7: a trust-gate error lets the utterance continue only when fail-open has
\* been configured; otherwise it reaches no transcription, routing or execution.
C7_FailClosedByDefault ==
  (utt.verify = "error" /\ ~fail_open_configured) =>
    /\ utt.text = <<>>
    /\ utt.nClassify = 0 /\ utt.nRoute = 0 /\ utt.nExecute = 0
    /\ pc \notin {"classify", "route", "confirm"}

\* the answers that are an explicit yes
AffirmativeAnswers == { <<"y">>, <<"y", "e", "s">>, <<" ", "Y", " ">> }

\* C8: on Confirm the executor is called, directly and once, only after an
\* explicit yes; any other answer cancels the utterance: nothing is launched,
\* there is no second prompt and no retry.
C8_ConfirmNeedsYes ==
  /\ \A s \in LaunchedNow :
       s.via = "direct" =>
         utt.decision = "Confirm" /\ utt.answered /\ utt.response \in AffirmativeAnswers
  /\ (utt.decision = "Confirm" /\ utt.nExecute > 0)
       => (utt.answered /\ utt.response \in AffirmativeAnswers /\ utt.nExecute = 1)
  /\ (utt.answered /\ utt.response \notin AffirmativeAnswers)
       => /\ utt.outcome = "cancelled"
          /\ utt.nExecute = 0 /\ utt.nPrompt = 1 /\ utt.nRoute = 1 /\ utt.nClassify = 1
          /\ pc # "confirm"
          /\ LaunchedNow = {}

\* a first utterance was run after a yes, a second one was declined
C8_Witness ==
  /\ \E s \in spawned : s.utt = 1 /\ s.via = "direct"
  /\ utt.no = 2
  /\ utt.outcome = "cancelled"
  /\ utt.response = <<"n">>

\* the thresholds given on the command line break confirmation <= auto-execute
\* or leave [0, 1]
InvalidThresholds ==
  \/ args.confirm > args.auto
  \/ args.confirm < 0 \/ args.confirm > ConfSteps
  \/ args.auto < 0 \/ args.auto > ConfSteps

\* C9: with such thresholds the construction fails before any utterance is
\* classified, routed or executed.
C9_InvalidThresholdsFailFast ==
  InvalidThresholds =>
    /\ ~router.built
    /\ uttNo = 0 /\ utt.nClassify = 0 /\ utt.nRoute = 0 /\ utt.nExecute = 0
    /\ spawned = {}
    /\ pc \in {"main", "exit"}
    /\ pc = "exit" => (exitCode = 1 /\ failure \in {"ValueError", "FileNotFoundError"})

\* the registry was loaded, both thresholds are in [0, 1], their order is
\* wrong, and the construction has failed
C9_Witness ==
  /\ pc = "exit" /\ failure = "ValueError" /\ executor.built
  /\ args.confirm > args.auto
  /\ args.confirm \in 0..ConfSteps /\ args.auto \in 0..ConfSteps

\* the lines of a source that are neither blank nor comments
EntryLines(lines) ==
  { i \in 1..Len(lines) : Strip(lines[i]) # <<>> /\ Head(Strip(lines[i])) # "#" }

\* what stands left and right of the first "=" of a line (the whole line is
\* the command text of a line without "=")
LeftOf(line) == SubSeq(line, 1, IndexOf(line, "=") - 1)

RightOf(line) == SubSeq(line, IndexOf(line, "=") + 1, Len(line))

HasForbiddenToken(text) == \E token \in FORBIDDEN_TOKENS : Contains(text, token)

\* a non-comment line repeats an identifier or has a forbidden token in its
\* command line
Offending(lines) ==
  \E i \in EntryLines(lines) :
    \/ HasForbiddenToken(RightOf(lines[i]))
    \/ \E j \in EntryLines(lines) :
         /\ j < i
         /\ IndexOf(lines[i], "=") > 0 /\ IndexOf(lines[j], "=") > 0
         /\ Strip(LeftOf(lines[i])) = Strip(LeftOf(lines[j]))

\* C10: a load of a source with a duplicate identifier or a forbidden token
\* aborts with a line-numbered error and writes no registry; so a registry that
\* is written has one entry per non-comment line, each with a non-empty
\* command free of forbidden tokens.
C10_UnsafeLoadAborts ==
  /\ []((validator.pc = "done" /\ source.present /\ Offending(source.lines))
          => /\ validator.exit = 2
             /\ validator.lineno \in EntryLines(source.lines))
  /\ [][validator'.exit # 0 => commandsJson' = commandsJson]_vars
  /\ []((validator.pc = "done" /\ validator.exit = 0)
          => /\ Cardinality(DOMAIN commandsJson.doc)
                  = Cardinality(EntryLines(source.lines))
             /\ \A k \in DOMAIN commandsJson.doc :
                  /\ commandsJson.doc[k].cmd # <<>>
                  /\ ~HasForbiddenToken(commandsJson.doc[k].cmd))

\* a load was aborted at its second line for a forbidden token, and the
\* commands.json of an earlier run is still there
C10_Witness ==
  /\ validator.exit = 2 /\ validator.kind = "forbidden_token" /\ validator.lineno = 2
  /\ commandsJson = [present |-> TRUE, doc |-> StaleDoc]

\* the identifiers of a source: what stands, trimmed, left of the "=" of its
\* lines that are neither blank nor comments
SourceIds(lines) == { Strip(LeftOf(lines[i])) : i \in EntryLines(lines) }

\* C11: after a successful load the identifiers of the compiled registry are
\* the identifiers of the non-blank, non-comment lines of the source, as they
\* were written: none added, none dropped, none altered.
C11_RoundTrip ==
  (validator.pc = "done" /\ validator.exit = 0) =>
    /\ commandsJson.present
    /\ DOMAIN commandsJson.doc = SourceIds(source.lines)
    /\ \A i \in EntryLines(source.lines) : IndexOf(source.lines[i], "=") > 0

\* a source of a comment and one entry written with blanks around its
\* identifier has been compiled
C11_Witness ==
  /\ validator.pc = "done" /\ validator.exit = 0
  /\ Len(source.lines) = 2
  /\ Cardinality(EntryLines(source.lines)) = 1
  /\ \E i \in EntryLines(source.lines) : Head(source.lines[i]) = " "
  /\ DOMAIN commandsJson.doc = { <<"A">> }

\* C12: a load of a source without entries (empty, or blank and comment lines
\* only) fails with the error that belongs to no line, which no source with
\* an entry gets, and writes no registry.
C12_EmptyLoadFails ==
  /\ []((validator.pc = "done" /\ source.present /\ EntryLines(source.lines) = {})
          => /\ validator.exit = 2
             /\ validator.kind = "no_commands"
             /\ validator.lineno = 0)
  /\ []((validator.pc = "done" /\ validator.exit = 2 /\ validator.kind # "no_commands")
          => /\ validator.lineno \in EntryLines(source.lines)
             /\ validator.lineno >= 1)
  /\ [][validator'.kind = "no_commands" => commandsJson' = commandsJson]_vars

\* a source of a blank line and a comment was rejected, no registry is there
C12_Witness ==
  /\ validator.kind = "no_commands" /\ validator.exit = 2
  /\ Len(source.lines) = 2
  /\ ~commandsJson.present

\* the registry entry of the pending intent has a command with at least one
\* word
HasArgv ==
  /\ utt.intent_id \in DOMAIN executor.commands
  /\ StrSplit(executor.commands[utt.intent_id].cmd) # <<>>

\* C13: execute of a registered identifier whose program exits non-zero or
\* cannot be found fails with CommandExecutionError, which carries the
\* captured stderr or that the executable was not found; it reports success
\* only for a program that ran and exited with status 0.
C13_ExecutionFailed ==
  (utt.nExecute > 0 /\ utt.intent_id \in DOMAIN executor.commands) =>
    /\ \A s \in LaunchedNow :
         /\ s.child = "nonzero"
              => (utt.outcome = "CommandExecutionError" /\ utt.detail = "stderr")
         /\ s.child = "notfound"
              => (utt.outcome = "CommandExecutionError" /\ utt.detail = "not_found")
    /\ utt.outcome = "executed"
         => (LaunchedNow # {} /\ \A s \in LaunchedNow : s.child = "ok")

\* after a yes, the executable of a registered command was not found
C13_Witness ==
  /\ utt.outcome = "CommandExecutionError" /\ utt.detail = "not_found"
  /\ \E s \in LaunchedNow : s.via = "direct" /\ s.child = "notfound"

C15_RouterPropagates ==
  utt.decision = "Execute" =>
    /\ utt.nExecute = 1
    /\ \A s \in LaunchedNow : s.id = utt.intent_id /\ s.via = "router"
    /\ utt.intent_id \notin DOMAIN executor.commands
         => utt.outcome = "CommandNotAllowedError"
    /\ \A s \in LaunchedNow : s.child # "ok" => utt.outcome = "CommandExecutionError"
    /\ utt.outcome = "executed" <=> \E s \in LaunchedNow : s.child = "ok"

\* the router was given an identifier the executor's registry lacks and the
\* caller was told so
C15_Witness ==
  /\ utt.decision = "Execute"
  /\ utt.outcome = "CommandNotAllowedError"
  /\ utt.confidence >= router.auto

\* C16: within one utterance the classifier, the router and the executor are
\* each called at most once; a classifier error ends the utterance before the
\* router and the executor; a rejected or failed command ends it too, nothing
\* is run a second time.
C16_NoRetry ==
  /\ utt.nClassify <= 1 /\ utt.nRoute <= 1 /\ utt.nExecute <= 1 /\ utt.nSpawn <= 1
  /\ Cardinality(LaunchedNow) <= 1
  /\ utt.outcome = "predict_error"
       => (utt.nRoute = 0 /\ utt.nExecute = 0 /\ LaunchedNow = {})
  /\ utt.outcome \in {"predict_error", "rejected", "CommandNotAllowedError",
                       "CommandExecutionError"}
       => pc \notin {"classify", "route", "confirm", "transcribe"}

\* a continuous voice session listens again after a command that failed
C16_Witness ==
  /\ utt.outcome = "CommandExecutionError" /\ utt.nExecute = 1
  /\ args.continuous /\ pc = "listen"

\* C17: verify on a verifier for which no call of train has ever returned
\* normally, and which found no store, fails with the not-trained error and
\* returns no authorization.
C17_VerifyBeforeEnroll ==
  (gateCall.op = "verify" /\ ~gateCall.enrolled /\ ~gateCall.stored)
    => (gateCall.raised /\ gateCall.error = "NotTrained" /\ ~gateCall.authorized)

\* C18: after reset_model has returned, whatever calls came before it, the
\* sample count is 0, the verifier is not trained and the store is gone; and
\* the verify that follows a reset fails with the not-trained error.
C18_ResetForgets ==
  /\ []((gateCall.op = "reset" /\ ~gateCall.raised)
          => /\ verifier.n_samples = 0
             /\ ~verifier.is_trained
             /\ ~modelStore.present)
  /\ [][(gateCall.op = "reset" /\ gateCall'.op = "verify")
          => (gateCall'.raised /\ gateCall'.error = "NotTrained")]_vars

\* a verifier that found a store and was trained further has been reset
C18_Witness ==
  /\ gateCall.op = "reset" /\ ~gateCall.raised
  /\ gateCall.enrolled /\ gateCall.stored
  /\ verifier.n_samples = 0 /\ ~modelStore.present

\* C19: a call of train, verify or reset_model changes the sample count in
\* two ways only: a train that returns normally adds one, a reset makes it 0;
\* so without a reset it never decreases.
C19_SampleCountSteps ==
  [][gateCall'.op \in {"train", "verify", "reset"} =>
       \/ verifier'.n_samples = verifier.n_samples
            /\ ~(gateCall'.op = "train" /\ ~gateCall'.raised)
       \/ /\ gateCall'.op = "train" /\ ~gateCall'.raised
          /\ verifier'.n_samples = verifier.n_samples + 1
       \/ /\ gateCall'.op = "reset"
          /\ verifier'.n_samples = 0]_vars

\* C20: when train has returned normally the store holds the sample count,
\* the trained flag and the threshold of the verifier; a verifier constructed
\* on a store starts with the values of the store, one constructed without a
\* store starts untrained with no samples.
C20_PersistenceRoundTrip ==
  /\ []((gateCall.op = "train" /\ ~gateCall.raised)
          => /\ modelStore.present
             /\ modelStore.n_samples = verifier.n_samples
             /\ modelStore.is_trained = verifier.is_trained
             /\ modelStore.threshold = verifier.threshold)
  /\ [][gateCall'.op = "init" =>
          IF modelStore.present
          THEN /\ verifier'.n_samples = modelStore.n_samples
               /\ verifier'.is_trained = modelStore.is_trained
               /\ verifier'.threshold = modelStore.threshold
          ELSE /\ ~verifier'.is_trained
               /\ verifier'.n_samples = 0]_vars

\* a verifier configured with another threshold than the one in the store
\* was constructed on a store written by two calls of train
C20_Witness ==
  /\ gateCall.op = "init" /\ gateCall.enrolled /\ ~gateCall.stored
  /\ modelStore.present /\ modelStore.n_samples = 2
  /\ verifier.n_samples = 2 /\ verifier.is_trained
  /\ gateCall.config # verifier.threshold

\* C21: verify on a trained verifier, when it returns, says authorized iff
\* the predicted class is the enrolled one and the confidence it reports,
\* which is the probability of the predicted class, is at least the
\* threshold; a prediction of the other class is never authorized.
C21_AuthorizedIff ==
  (gateCall.op = "verify" /\ verifier.is_trained /\ ~gateCall.raised) =>
    /\ gateCall.confidence = gateCall.probability
    /\ gateCall.authorized <=>
         (gateCall.prediction = 1 /\ gateCall.confidence >= verifier.threshold)
    /\ gateCall.prediction # 1 => ~gateCall.authorized

\* the other class was predicted with the highest confidence there is, above
\* the threshold of the verifier, and the speaker was not authorized
C21_Witness ==
  /\ gateCall.op = "verify" /\ ~gateCall.raised
  /\ gateCall.prediction = 0 /\ gateCall.confidence = ConfSteps
  /\ verifier.threshold < ConfSteps
  /\ ~gateCall.authorized

\* C22: a failure of the feature extraction, of the scaler, of the model or of
\* the save inside verify or train reaches the caller as
\* SpeakerVerificationError; verify returns no result when something failed.
C22_SingleGateError ==
  (gateCall.op \in {"verify", "train"} /\ gateCall.fault # "none") =>
    /\ gateCall.raised
    /\ gateCall.exception = SpeakerVerificationError
    /\ ~gateCall.authorized

\* the model failed inside verify on a verifier that was trained
C22_Witness ==
  /\ gateCall.op = "verify" /\ gateCall.fault = "model_error"
  /\ verifier.is_trained /\ gateCall.enrolled

\* C23: in continuous voice mode consecutive capture timeouts are retried
\* only up to a maximum number of attempts (max_retries, the one the capture
\* component configures): after that many timeouts in a row the session has
\* given up and is not listening again.
C23_BoundedTimeoutRetry ==
  (Mode = "voice" /\ args.continuous /\ capture.timeouts >= max_retries)
    => pc = "exit"

\* C24: a microphone error during calibration or capture ends the voice
\* session at once, in single-shot and in continuous mode: the session has
\* returned a non-zero status, and from then on no capture is attempted, no
\* utterance is processed and no command is executed.
C24_MicrophoneErrorAborts ==
  /\ [](capture.failed =>
          pc = "exit" /\ exitCode = 1 /\ failure = "MicrophoneError")
  /\ [][capture.failed => UNCHANGED <<pc, capture, uttNo, utt, spawned>>]_vars

\* a microphone error in continuous mode, after an utterance was processed
C24_Witness ==
  capture.failed /\ args.continuous /\ uttNo >= 1 /\ utt.outcome # "pending"

\* C25: the exit status is 0 for every resolved utterance: when the command
\* was executed and when the user declined it at the confirmation prompt.
C25_ResolvedExitsZero ==
  (pc = "exit" /\ failure = "none" /\ utt.outcome \in {"executed", "cancelled"})
    => exitCode = 0

\* C26: in the modes that process a single utterance (a text argument, and
\* voice without --continuous) a command that failed with
\* CommandNotAllowedError or CommandExecutionError gives a non-zero exit
\* status.
C26_ExecutionFailureExitsNonZero ==
  (pc = "exit" /\ failure = "none" /\ ~args.continuous /\ Mode \in {"single", "voice"}
     /\ utt.outcome \in {"CommandNotAllowedError", "CommandExecutionError"})
    => exitCode # 0

\* C27: an interrupt during a blocking wait of the interactive loop or of the
\* voice loop ends the mode with a normal return (status 0), the command that
\* was waiting for its confirmation has not been executed, and nothing is
\* executed afterwards.
C27_InterruptEndsGracefully ==
  /\ []((failure = "KeyboardInterrupt" /\ Mode # "single") =>
          /\ pc = "exit" /\ exitCode = 0
          /\ (utt.nPrompt > 0 /\ ~utt.answered) => (utt.nExecute = 0 /\ utt.nSpawn = 0))
  /\ [][(failure = "KeyboardInterrupt" /\ Mode # "single") =>
          UNCHANGED <<pc, utt, spawned>>]_vars

\* the interactive loop interrupted at the confirmation prompt
C27_Witness ==
  /\ failure = "KeyboardInterrupt" /\ Mode = "interactive"
  /\ utt.decision = "Confirm" /\ utt.nPrompt = 1 /\ ~utt.answered

\* the modes that loop over utterances
Looping == Mode = "interactive" \/ (Mode = "voice" /\ args.continuous)

\* the ways one utterance fails on its own
UtteranceFailures ==
  {"predict_error", "rejected", "cancelled", "CommandNotAllowedError",
   "CommandExecutionError", "unauthorized", "transcription_error"}

\* C28: in the interactive loop and in continuous voice mode a failure of one
\* utterance (classification error, Reject, declined confirmation, execution
\* error, unauthorized speaker, transcription error) does not end the loop:
\* the loop is back at its blocking wait, where the next utterance is taken,
\* and only an interrupt, the end of the input or a microphone error at that
\* wait ends it.
C28_LoopSurvivesUtteranceFailure ==
  (Looping /\ utt.outcome \in UtteranceFailures) =>
    \/ /\ pc = (IF Mode = "interactive" THEN "input" ELSE "listen")
       /\ failure = "none" /\ exitCode = NotExited
       /\ uttNo < MaxUtterances => ENABLED (ReadInput \/ Listen)
    \/ /\ pc = "exit"
       /\ failure \in {"KeyboardInterrupt", "EOFError", "MicrophoneError"}

\* a second utterance was executed after the command of the first one failed
C28_Witness ==
  /\ Looping /\ utt.no = 2 /\ utt.outcome = "executed"
  /\ \E l \in spawned : l.utt = 1 /\ l.child # "ok"

\* C29: the classifier never returns an intent id that is absent from the
\* registry it validates against (the identifiers of commands.json): when
\* the predicted class has no entry in the label map, or its intent id is
\* not in the registry, predict fails with PredictError.
C29_PredictionInRegistry ==
  /\ utt.classified => (commandsJson.present /\ utt.intent_id \in valid_intents)
  /\ (utt.predicted.kind = "unmapped_class"
        \/ (utt.predicted.kind = "label" /\ utt.predicted.intent_id \notin valid_intents))
       => (~utt.classified /\ utt.outcome = "predict_error" /\ utt.nRoute = 0)

\* the model answered with a label whose intent id is not in commands.json
C29_Witness ==
  /\ utt.predicted.kind = "label" /\ utt.predicted.intent_id \notin valid_intents
  /\ commandsJson.present /\ utt.outcome = "predict_error"

\* C30: the wakeword stripper is idempotent, strip(strip(t)) = strip(t) for
\* every text t, and returns a text in which no wakeword is detected
\* unchanged.
C30_StripIdempotent ==
  /\ wake.n = 2 => wake.out = wake.prev
  /\ (wake.n = 1 /\ ~detect(wake.text, DefaultWakeword, FALSE, TRUE))
       => wake.out = wake.text

\* the file the executor is constructed on
RegistryFile == IF args.commands = "alt" THEN altJson ELSE commandsJson

\* C31: the registry the executor holds is never changed after the load: it
\* is the document that was loaded, and no step of the assistant (route,
\* execute, the confirmation, the loops) adds, removes or changes an entry.
C31_RegistryImmutable ==
  /\ [](executor.built => executor.commands = RegistryFile.doc)
  /\ [][executor.built => executor' = executor]_vars

\* two utterances have gone through the router and the executor
C31_Witness ==
  /\ executor.built /\ uttNo = 2 /\ utt.nExecute = 1
  /\ \E l \in spawned : l.utt = 1
  /\ executor.commands = RegistryFile.doc

\* the rules of a line, in the order the claim gives them
RuleOrder ==
  <<"missing_eq", "invalid_id", "duplicate_id", "empty_command", "forbidden_token",
    "shell_parsing">>

\* the rules line i of lines violates, each taken on its own (a line without
\* "=" has neither identifier nor command, and violates the first rule only)
Violated(lines, i) ==
  LET line == Strip(lines[i])
      key == Strip(LeftOf(line))
      value == Strip(RightOf(line))
  IN IF IndexOf(line, "=") = 0 THEN {"missing_eq"}
     ELSE (IF IsIdentifier(key) THEN {} ELSE {"invalid_id"})
          \cup (IF \E j \in EntryLines(lines) :
                     /\ j < i /\ IndexOf(lines[j], "=") > 0
                     /\ Strip(LeftOf(Strip(lines[j]))) = key
                THEN {"duplicate_id"} ELSE {})
          \cup (IF value = <<>> THEN {"empty_command"} ELSE {})
          \cup (IF HasForbiddenToken(value) THEN {"forbidden_token"} ELSE {})
          \cup (IF ShlexSplit(value).ok THEN {} ELSE {"shell_parsing"})

\* the lines of a source that violate a rule
OffendingLines(lines) == { i \in EntryLines(lines) : Violated(lines, i) # {} }

\* the first rule, in the order of RuleOrder, among rules
Earliest(rules) ==
  RuleOrder[CHOOSE n \in 1..Len(RuleOrder) :
              /\ RuleOrder[n] \in rules
              /\ \A m \in 1..(n - 1) : RuleOrder[m] \notin rules]

\* C32: the lines are checked in file order and the load aborts at the first
\* line that violates a rule; within the line the rules are checked in the
\* order missing "=", invalid identifier, duplicate identifier, empty
\* command, forbidden token, tokenization error, so the error names the
\* earliest rule the line violates.  A load succeeds only if no line
\* violates a rule.
C32_ValidationOrder ==
  (validator.pc = "done" /\ source.present) =>
    IF OffendingLines(source.lines) = {}
    THEN validator.kind \in {"ok", "no_commands"}
    ELSE /\ validator.exit = 2
         /\ validator.lineno \in OffendingLines(source.lines)
         /\ \A i \in OffendingLines(source.lines) : validator.lineno <= i
         /\ validator.kind = Earliest(Violated(source.lines, validator.lineno))

\* the second line repeats the identifier of the first and has a forbidden
\* token: the load was aborted there for the duplicate
C32_Witness ==
  /\ validator.pc = "done" /\ validator.lineno = 2 /\ validator.kind = "duplicate_id"
  /\ Len(source.lines) = 2
  /\ {"duplicate_id", "forbidden_token"} \subseteq Violated(source.lines, 2)

\* the speaker gate was asked about the audio of the utterance
Verified == utt.verify \in {"authorized", "unauthorized", "error"}

\* C33: for a voice utterance with the speaker verification enabled the
\* stages run in the order wakeword strip, classify, verify, route: when the
\* gate is asked, the classifier has been invoked on the stripped text, and
\* when the router is consulted the gate has answered.
C33_StageOrder ==
  /\ Verified => utt.nClassify >= 1
  /\ (Mode = "voice" /\ transcriber.verify_speaker /\ utt.nRoute >= 1) => Verified

\* the calls of listen made so far were all timeouts
AllTimeouts(heard) == \A k \in 1..Len(heard) : heard[k] = "timeout"

\* C34: listen_with_retry(max_retries = n) makes at most n calls of listen;
\* it returns the first sample captured, returns None when n calls have timed
\* out, and re-raises the first MicrophoneError, after which it makes no
\* further call; every call before the last one timed out.
C34_BoundedRetry ==
  /\ Len(retry.heard) <= retry.max_retries
  /\ retry.pc = "loop" =>
       (AllTimeouts(retry.heard) /\ retry.result = "none")
  /\ retry.pc = "done" =>
       /\ AllTimeouts(SubSeq(retry.heard, 1, Len(retry.heard) - 1))
       /\ retry.result = "audio" <=>
            (retry.heard # <<>> /\ retry.heard[Len(retry.heard)] = "audio")
       /\ retry.result = "MicrophoneError" <=>
            (retry.heard # <<>> /\ retry.heard[Len(retry.heard)] = "mic_error")
       /\ retry.result = "None" <=>
            (AllTimeouts(retry.heard) /\ Len(retry.heard) = retry.max_retries)

\* three attempts were allowed and all three timed out
C34_Witness ==
  /\ retry.pc = "done" /\ retry.max_retries = 3 /\ retry.result = "None"
  /\ retry.heard = <<"timeout", "timeout", "timeout">>

\* C35: in a speaker training session a sample that timed out or failed to
\* be processed is asked for again, so a session that runs to completion has
\* registered n_samples successful samples.
C35_TrainingRetriesSample ==
  (training.pc = "done" /\ training.ended = "completed")
    => training.successful = training.n

\* C36: in every state of the speaker gate is_trained holds exactly when
\* n_samples >= 1; after a successful train, also one that follows a failed
\* train, is_trained holds (so that verify does not fail for want of training).
C36_TrainedIffSampled ==
  /\ verifier.built => (verifier.is_trained <=> verifier.n_samples >= 1)
  /\ (gateCall.op = "train" /\ ~gateCall.raised) => verifier.is_trained

\* C37: a call of train that fails with the SpeakerVerificationError leaves
\* n_samples, is_trained, the presence of a model in memory and the store as
\* they were before the call.
C37_FailedTrainChangesNothing ==
  [][(gateCall'.op = "train" /\ gateCall'.raised)
       => /\ verifier'.n_samples = verifier.n_samples
          /\ verifier'.is_trained = verifier.is_trained
          /\ verifier'.model = verifier.model
          /\ modelStore' = modelStore]_vars

\* C38: in a voice session started with speaker verification enabled, verify
\* is called on the audio of every utterance that is transcribed; the setting
\* is not dropped when the verifier fails to initialise.
C38_VerificationNeverDropped ==
  (args.voice /\ args.verify) => utt.verify # "skipped"

\* C39: for a registry the executor's constructor accepted and an identifier
\* in it, execute returns or raises CommandExecutionError and nothing else,
\* so process_text returns a boolean and lets no exception out of an
\* utterance.
C39_OnlyExecutionFailed ==
  (utt.nExecute > 0 /\ utt.intent_id \in DOMAIN executor.commands) =>
    /\ utt.outcome \in {"executed", "CommandExecutionError"}
    /\ failure \notin {"ValueError", "IndexError"}

\* C40: the identifiers the classifier validates its prediction against are
\* those of the registry the executor executes from, also under an alternate
\* --commands path; an intent the classifier returned never makes the
\* executor fail with CommandNotAllowedError.
C40_OneRegistry ==
  /\ executor.built => valid_intents = DOMAIN executor.commands
  /\ (utt.classified /\ utt.nExecute > 0) => utt.outcome # "CommandNotAllowedError"

====
